---- MODULE Spec2Model ----
(***************************************************************************)
(* A model of the binary codecs of valence:                                *)
(*   - valence_nbt::binary::decode (from_binary and DecodeState),          *)
(*   - valence_protocol::id_or (IdOr encode / decode),                     *)
(*   - valence_protocol::packets::play::commands_s2c (Node, Parser),       *)
(* of the score diffing of valence_scoreboard (components.rs), and of the  *)
(* systems of valence_boss_bar that show and hide boss bars (lib.rs).      *)
(* The NBT decoder is a recursive-descent parser; it is modelled as a      *)
(* machine with an explicit call stack, one frame per active call of       *)
(* read_compound or read_list.                                             *)
(***************************************************************************)
EXTENDS Integers, Sequences, FiniteSets, TLC

VARIABLES
    input,      \* the bytes the caller's slice held when from_binary was called
    slice,      \* *state.slice: the bytes not yet consumed
    depth,      \* state.depth
    stack,      \* active read_compound / read_list calls, innermost last
    pc,         \* "start" | "run" | "unwind" | "done" | "err"
    err,        \* the error kind being returned ("none" while there is none)
    root_name,  \* the Option<S> from_binary returns
    root,       \* the Compound from_binary returns
    last,       \* the length-prefixed fields read by the latest step (history)
    doc,        \* what the input was built from (history; never read by the decoder)
    w_value,    \* packet codecs: the value handed to encode
    w_buf,      \* packet codecs: the bytes encode wrote
    w_rest,     \* packet codecs: the slice after decode
    w_out,      \* packet codecs: what decode returned
    w_pc,       \* packet codecs: "idle" | "value" | "bytes" | "decoded" | "again" | "panic"
    w_again,    \* packet codecs: the bytes encode wrote for the value decode returned
    s_scores,   \* scoreboard: the ObjectiveScores of the objective
    s_old,      \* scoreboard: its OldObjectiveScores
    s_diff,     \* scoreboard: what OldObjectiveScores::diff returned in this tick
    s_sent,     \* scoreboard: the score packets sent in the latest tick
    s_pc,       \* scoreboard: "idle" | "run" | "diffed"
    b_client,   \* boss bars: the client's VisibleEntityLayers, Position, ViewDistance
    b_old,      \* boss bars: its OldVisibleEntityLayers, OldPosition, OldViewDistance
    b_changed,  \* boss bars: the components of the client marked changed in this tick
    b_bars,     \* boss bars: the boss bar entities that exist
    b_despawned, \* boss bars: those of them marked Despawned
    b_sent,     \* boss bars: the packets written to the client in this tick
    b_layer_sent, \* boss bars: the packets written to the entity layers in this tick
    b_ran,      \* boss bars: the systems that have run in this tick
    b_shown,    \* boss bars: the bars the client shows, by the packets of earlier ticks (history)
    b_pc        \* boss bars: "idle" | "update" | "post"

nbtVars == <<input, slice, depth, stack, pc, err, root_name, root, last, doc>>

wireVars == <<w_value, w_buf, w_rest, w_out, w_pc, w_again>>

scoreVars == <<s_scores, s_old, s_diff, s_sent, s_pc>>

bossVars ==
    <<b_client, b_old, b_changed, b_bars, b_despawned, b_sent, b_layer_sent, b_ran, b_shown,
      b_pc>>

vars == <<nbtVars, wireVars, scoreVars, bossVars>>

(***************************************************************************)
(* Bytes and fixed-width big-endian integers (byteorder::ReadBytesExt on   *)
(* &[u8]).  Integers of TLC are 32 bits wide, so the 64-bit quantities     *)
(* are kept as a pair <<high 32 bits, low 32 bits>> of signed words.       *)
(***************************************************************************)
Byte == 0..255

Drop(s, n) == SubSeq(s, n + 1, Len(s))

Take(s, n) == SubSeq(s, 1, n)

NoEvents == << >>

Ok(v, rest, evs) == [ok |-> TRUE, v |-> v, rest |-> rest, err |-> "none", evs |-> evs]

Fail(kind, rest, evs) == [ok |-> FALSE, v |-> << >>, rest |-> rest, err |-> kind, evs |-> evs]

\* b as i8
AsI8(b) == IF b >= 128 THEN b - 256 ELSE b

\* i16::from_be_bytes
I16(b) == AsI8(b[1]) * 256 + b[2]

\* u16::from_be_bytes
U16(b) == b[1] * 256 + b[2]

\* i32::from_be_bytes
I32(b) == AsI8(b[1]) * 16777216 + b[2] * 65536 + b[3] * 256 + b[4]

\* i64::from_be_bytes, as <<high word, low word>>
I64(b) == <<I32(SubSeq(b, 1, 4)), I32(SubSeq(b, 5, 8))>>

\* slice.read_u8(): std::io::Read::read_exact on a slice fails with UnexpectedEof
\* when fewer bytes remain than asked for.
read_u8(s) == IF Len(s) < 1 THEN Fail("Io", s, NoEvents) ELSE Ok(s[1], Drop(s, 1), NoEvents)

\* read_i8 that leaves the byte in the slice
read_byte_peek(s) == IF Len(s) < 1 THEN Fail("Io", s, NoEvents) ELSE Ok(AsI8(s[1]), s, NoEvents)

read_byte(s) == IF Len(s) < 1 THEN Fail("Io", s, NoEvents) ELSE Ok(AsI8(s[1]), Drop(s, 1), NoEvents)

read_short(s) == IF Len(s) < 2 THEN Fail("Io", s, NoEvents) ELSE Ok(I16(Take(s, 2)), Drop(s, 2), NoEvents)

read_u16(s) == IF Len(s) < 2 THEN Fail("Io", s, NoEvents) ELSE Ok(U16(Take(s, 2)), Drop(s, 2), NoEvents)

read_int(s) == IF Len(s) < 4 THEN Fail("Io", s, NoEvents) ELSE Ok(I32(Take(s, 4)), Drop(s, 4), NoEvents)

read_long(s) == IF Len(s) < 8 THEN Fail("Io", s, NoEvents) ELSE Ok(I64(Take(s, 8)), Drop(s, 8), NoEvents)

\* f32::from_bits of the four bytes: the value is kept as its bit pattern
read_float(s) == read_int(s)

\* f64::from_bits of the eight bytes: the value is kept as its bit pattern
read_double(s) == read_long(s)

(***************************************************************************)
(* 64-bit unsigned arithmetic of the length checks, on four 16-bit limbs   *)
(* <<w3, w2, w1, w0>> (most significant first).                            *)
(***************************************************************************)
Limb == 65536

\* n as u64, for 0 <= n < 2^31
ToU64(n) == <<0, 0, n \div Limb, n % Limb>>

\* the product computed in 32 bits: a as u32 * b as u32, wrapping at 2^32
MulU64_wrapping32(a, b) ==
    LET p0 == (a % Limb) * b
        p1 == (a \div Limb) * b + (p0 \div Limb)
    IN  <<0, 0, p1 % Limb, p0 % Limb>>

\* a as u64 * b as u64 (wrapping at 2^64), for 0 <= a < 2^31 and 0 <= b < 2^15
MulU64(a, b) ==
    LET p0 == (a % Limb) * b
        p1 == (a \div Limb) * b + (p0 \div Limb)
        p2 == p1 \div Limb
    IN  <<p2 \div Limb, p2 % Limb, p1 % Limb, p0 % Limb>>

\* x > y on u64
GtU64(x, y) ==
    \E i \in 1..4 : x[i] > y[i] /\ \A j \in 1..(i - 1) : x[j] = y[j]

(***************************************************************************)
(* Tags                                                                    *)
(***************************************************************************)
TagNames == <<"End", "Byte", "Short", "Int", "Long", "Float", "Double", "ByteArray",
              "String", "List", "Compound", "IntArray", "LongArray">>

\* the wire code of a tag: End = 0 ... LongArray = 12
TagCode(t) == CHOOSE c \in 0..12 : TagNames[c + 1] = t

read_tag(s) ==
    LET b == read_u8(s)
    IN  IF ~b.ok THEN b
        ELSE IF b.v <= 12 THEN Ok(TagNames[b.v + 1], b.rest, NoEvents)
        ELSE Fail("InvalidTag", b.rest, NoEvents)

(***************************************************************************)
(* Modified UTF-8 (cesu8::from_java_cesu8).  The decoded text is kept as   *)
(* the UTF-8 bytes of the resulting str.                                   *)
(***************************************************************************)
IsCont(x) == x >= 128 /\ x <= 191

\* core::str::utf8_char_width
Utf8Width(x) ==
    IF x < 128 THEN 1
    ELSE IF x >= 194 /\ x <= 223 THEN 2
    ELSE IF x >= 224 /\ x <= 239 THEN 3
    ELSE IF x >= 240 /\ x <= 244 THEN 4
    ELSE 0

\* the ranges the second byte of a sequence may take, by lead byte
SecondOk(first, second) ==
    CASE first = 224 -> second >= 160 /\ second <= 191
      [] first = 237 -> second >= 128 /\ second <= 159
      [] first = 240 -> second >= 144 /\ second <= 191
      [] first = 244 -> second >= 128 /\ second <= 143
      [] OTHER -> IsCont(second)

\* core::str::from_utf8(b).is_ok()
IsUtf8(b) ==
    \A i \in 1..Len(b) :
        IF IsCont(b[i]) THEN i > 1
        ELSE LET n == Utf8Width(b[i])
             IN  /\ n > 0
                 /\ i + n - 1 <= Len(b)
                 /\ \A j \in (i + 1)..(i + n - 1) : IsCont(b[j])
                 /\ n > 1 => SecondOk(b[i], b[i + 1])
                 /\ i + n <= Len(b) => ~IsCont(b[i + n])

\* cesu8's decode_from_iter for Variant::Java: << >> stands for the failure
\* (the result of a successful decode of a non-empty input is never empty).
RECURSIVE DecodeCesu8(_)
DecodeCesu8(b) ==
    IF Len(b) = 0 THEN <<"ok">>
    ELSE LET first == b[1]
             more(n, out) ==
                 LET r == DecodeCesu8(Drop(b, n))
                 IN  IF r = << >> THEN << >> ELSE <<"ok">> \o out \o Tail(r)
         IN  IF first < 128 THEN more(1, <<first>>)
             ELSE IF first = 192 THEN
                 IF Len(b) >= 2 /\ b[2] = 128 THEN more(2, <<0>>) ELSE << >>
             ELSE IF Utf8Width(first) = 2 THEN
                 IF Len(b) >= 2 /\ IsCont(b[2]) THEN more(2, <<first, b[2]>>) ELSE << >>
             ELSE IF Utf8Width(first) = 3 THEN
                 IF Len(b) >= 3 /\ IsCont(b[2]) /\ IsCont(b[3]) THEN
                     IF first = 237 /\ b[2] >= 160 THEN
                         \* a surrogate pair, spelled as two 3-byte sequences
                         IF /\ b[2] <= 175 /\ Len(b) >= 6 /\ b[4] = 237
                            /\ b[5] >= 176 /\ b[5] <= 191 /\ IsCont(b[6])
                         THEN LET hi == 53248 + (b[2] % 64) * 64 + (b[3] % 64)
                                  lo == 53248 + (b[5] % 64) * 64 + (b[6] % 64)
                                  c  == 65536 + (hi - 55296) * 1024 + (lo - 56320)
                              IN  more(6, <<240 + (c \div 262144),
                                            128 + ((c \div 4096) % 64),
                                            128 + ((c \div 64) % 64),
                                            128 + (c % 64)>>)
                         ELSE << >>
                     ELSE IF SecondOk(first, b[2]) THEN more(3, <<first, b[2], b[3]>>)
                     ELSE << >>
                 ELSE << >>
             ELSE << >>

\* <String as FromModifiedUtf8>::from_modified_utf8: valid UTF-8 is taken as
\* it is, anything else goes through the CESU-8 decoder.
from_modified_utf8(b) ==
    IF IsUtf8(b) THEN [ok |-> TRUE, str |-> b]
    ELSE LET r == DecodeCesu8(b)
         IN  IF r = << >> THEN [ok |-> FALSE, str |-> << >>]
             ELSE [ok |-> TRUE, str |-> Tail(r)]

(***************************************************************************)
(* The length-prefixed scalar fields.  Every reader returns, as evs, one   *)
(* record per length-prefixed field it read: the field kind, the bytes of  *)
(* the length field, the length as the code interprets it, the bytes that  *)
(* remained after the length field, how many elements were read, and the   *)
(* number of elements the Vec of the result was allocated for.             *)
(***************************************************************************)
Event(field, elem, raw, len, avail, nread, cap, outcome) ==
    [field |-> field, elem |-> elem, raw |-> raw, len |-> len, avail |-> avail,
     nread |-> nread, cap |-> cap, outcome |-> outcome]

read_byte_array(s) ==
    LET l == read_int(s)
        ev(n, o) == <<Event("ByteArray", "Byte", Take(s, 4), l.v, Len(l.rest), n, n, o)>>
    IN  IF ~l.ok THEN l
        ELSE IF l.v < 0 THEN Fail("LengthError", l.rest, ev(0, "LengthError"))
        ELSE IF l.v > Len(l.rest) THEN Fail("LengthError", l.rest, ev(0, "LengthError"))
        ELSE Ok([i \in 1..l.v |-> AsI8(l.rest[i])], Drop(l.rest, l.v), ev(l.v, "ok"))

\* read_string that returns the string and leaves its bytes in the slice
read_string_unadvanced(s) ==
    LET l == read_u16(s)
        ev(n, o) == <<Event("String", "Byte", Take(s, 2), l.v, Len(l.rest), n, 0, o)>>
    IN  IF ~l.ok THEN l
        ELSE IF l.v > Len(l.rest) THEN Fail("LengthError", l.rest, ev(0, "LengthError"))
        ELSE LET str == from_modified_utf8(Take(l.rest, l.v))
             IN  IF str.ok THEN Ok(str.str, l.rest, ev(l.v, "ok"))
                 ELSE Fail("StringDecodeError", l.rest, ev(l.v, "StringDecodeError"))

read_string(s) ==
    LET l == read_u16(s)
        ev(n, o) == <<Event("String", "Byte", Take(s, 2), l.v, Len(l.rest), n, 0, o)>>
    IN  IF ~l.ok THEN l
        ELSE IF l.v > Len(l.rest) THEN Fail("LengthError", l.rest, ev(0, "LengthError"))
        ELSE LET str == from_modified_utf8(Take(l.rest, l.v))
             IN  IF str.ok THEN Ok(str.str, Drop(l.rest, l.v), ev(l.v, "ok"))
                 ELSE Fail("StringDecodeError", l.rest, ev(l.v, "StringDecodeError"))

\* read_int_array with a negative length taken for an empty array
read_int_array_lenient(s) ==
    LET l == read_int(s)
        ev(n, o) == <<Event("IntArray", "Int", Take(s, 4), l.v, Len(l.rest), n, n, o)>>
    IN  IF ~l.ok THEN l
        ELSE IF l.v < 0 THEN Ok(<< >>, l.rest, ev(0, "ok"))
        ELSE IF GtU64(MulU64(l.v, 4), ToU64(Len(l.rest)))
             THEN Fail("LengthError", l.rest, ev(0, "LengthError"))
        ELSE Ok([i \in 1..l.v |-> I32(SubSeq(l.rest, 4 * i - 3, 4 * i))],
                Drop(l.rest, 4 * l.v), ev(l.v, "ok"))

\* the loop reads an element at a time and returns the Err of read_int when
\* the input ends before `len` elements are read
read_int_array(s) ==
    LET l == read_int(s)
        ev(n, cap, o) ==
            <<Event("IntArray", "Int", Take(s, 4), l.v, Len(l.rest), n, cap, o)>>
        whole == Len(l.rest) \div 4
    IN  IF ~l.ok THEN l
        ELSE IF l.v < 0 THEN Fail("LengthError", l.rest, ev(0, 0, "LengthError"))
        ELSE IF GtU64(MulU64(l.v, 4), ToU64(Len(l.rest)))
             THEN Fail("LengthError", l.rest, ev(0, 0, "LengthError"))
        ELSE IF l.v > whole THEN Fail("Io", Drop(l.rest, 4 * whole), ev(whole, l.v, "Io"))
        ELSE Ok([i \in 1..l.v |-> I32(SubSeq(l.rest, 4 * i - 3, 4 * i))],
                Drop(l.rest, 4 * l.v), ev(l.v, l.v, "ok"))

read_long_array(s) ==
    LET l == read_int(s)
        ev(n, cap, o) ==
            <<Event("LongArray", "Long", Take(s, 4), l.v, Len(l.rest), n, cap, o)>>
        whole == Len(l.rest) \div 8
    IN  IF ~l.ok THEN l
        ELSE IF l.v < 0 THEN Fail("LengthError", l.rest, ev(0, 0, "LengthError"))
        ELSE IF GtU64(MulU64(l.v, 8), ToU64(Len(l.rest)))
             THEN Fail("LengthError", l.rest, ev(0, 0, "LengthError"))
        ELSE IF l.v > whole THEN Fail("Io", Drop(l.rest, 8 * whole), ev(whole, l.v, "Io"))
        ELSE Ok([i \in 1..l.v |-> I64(SubSeq(l.rest, 8 * i - 7, 8 * i))],
                Drop(l.rest, 8 * l.v), ev(l.v, l.v, "ok"))

(***************************************************************************)
(* The recursive readers.  A call that recurses (read_compound, read_list) *)
(* becomes a frame of the stack; a reader returns one of                   *)
(*   "value": it returned Ok(v),                                           *)
(*   "err":   it returned Err,                                             *)
(*   "call":  it entered read_compound or read_list (the frame to push).   *)
(* depth is self.depth when the reader returns or makes the call.          *)
(***************************************************************************)
\* Maximum recursion depth to prevent overflowing the call stack.
MAX_DEPTH == 512

Val(v, rest, d, evs) ==
    [kind |-> "value", v |-> v, rest |-> rest, depth |-> d, err |-> "none", evs |-> evs,
     frame |-> << >>]

Bad(kind, rest, d, evs) ==
    [kind |-> "err", v |-> << >>, rest |-> rest, depth |-> d, err |-> kind, evs |-> evs,
     frame |-> << >>]

Call(frame, rest, d, evs) ==
    [kind |-> "call", v |-> << >>, rest |-> rest, depth |-> d, err |-> "none", evs |-> evs,
     frame |-> frame]

\* a scalar reader's Result, with the value converted by `into`
Scalar(tag, r, d) ==
    IF r.ok THEN Val(<<tag, r.v>>, r.rest, d, r.evs) ELSE Bad(r.err, r.rest, d, r.evs)

\* a list element's Result: the element is pushed as it is
Element(r, d) ==
    IF r.ok THEN Val(r.v, r.rest, d, r.evs) ELSE Bad(r.err, r.rest, d, r.evs)

\* a frame for read_compound; guards counts the check_depth calls around it
CompoundFrame(g) ==
    [fn |-> "read_compound", guards |-> g, tag |-> "Compound", len |-> 0, cap |-> 0,
     acc |-> << >>, key |-> << >>]

\* a frame for read_list, entered with `len` elements of `elem_type` to read
ListFrame(g, elem_type, len, cap) ==
    [fn |-> "read_list", guards |-> g, tag |-> elem_type, len |-> len, cap |-> cap,
     acc |-> << >>, key |-> << >>]

\* DepthExceeded with the comparison off by one
DepthExceeded_strict(d) == d > MAX_DEPTH

\* the test check_depth makes on entry
DepthExceeded(d) == d >= MAX_DEPTH

\* check_depth that does not lower the depth again when f returns
check_depth_unbalanced(s, d, r) ==
    IF DepthExceeded(d) THEN Bad("MaxDepthExceeded", s, d, NoEvents)
    ELSE r

\* check_depth(f), with r the outcome of f run at depth d + 1: the depth is
\* raised around f and lowered again when f returns, which for a "call"
\* happens when the frame is popped.
check_depth(s, d, r) ==
    IF DepthExceeded(d) THEN Bad("MaxDepthExceeded", s, d, NoEvents)
    ELSE IF r.kind = "call" THEN r
    ELSE [r EXCEPT !.depth = d]

\* the elem_size argument read_any_list passes to read_list
ElemSize(elem_type) ==
    CASE elem_type = "Byte" -> 1
      [] elem_type = "Short" -> 2
      [] elem_type = "Int" -> 4
      [] elem_type = "Long" -> 8
      [] elem_type = "Float" -> 4
      [] elem_type = "Double" -> 8
      [] OTHER -> 0

\* read_list that allocates the Vec for the declared length whatever the
\* element size
read_list_presized(elem_type, elem_size, s, d, g) ==
    LET l == read_int(s)
        ev(cap, o) == <<Event("List", elem_type, Take(s, 4), l.v, Len(l.rest), 0, cap, o)>>
    IN  IF ~l.ok THEN Bad(l.err, l.rest, d, NoEvents)
        ELSE IF l.v < 0 THEN Bad("LengthError", l.rest, d, ev(0, "LengthError"))
        ELSE IF GtU64(MulU64(l.v, elem_size), ToU64(Len(l.rest)))
             THEN Bad("LengthError", l.rest, d, ev(0, "LengthError"))
        ELSE Call(ListFrame(g, elem_type, l.v, l.v), l.rest, d, ev(l.v, "ok"))

\* read_list up to its loop: the length and its checks, and the Vec
read_list(elem_type, elem_size, s, d, g) ==
    LET l == read_int(s)
        ev(cap, o) == <<Event("List", elem_type, Take(s, 4), l.v, Len(l.rest), 0, cap, o)>>
        capacity == IF elem_size = 0 THEN 0 ELSE l.v
    IN  IF ~l.ok THEN Bad(l.err, l.rest, d, NoEvents)
        ELSE IF l.v < 0 THEN Bad("LengthError", l.rest, d, ev(0, "LengthError"))
        ELSE IF GtU64(MulU64(l.v, elem_size), ToU64(Len(l.rest)))
             THEN Bad("LengthError", l.rest, d, ev(0, "LengthError"))
        ELSE Call(ListFrame(g, elem_type, l.v, capacity), l.rest, d, ev(capacity, "ok"))

\* read_any_list with the length of a TAG_End list not looked at
read_any_list_any_length(s, d, g) ==
    LET t == read_tag(s)
    IN  IF ~t.ok THEN Bad(t.err, t.rest, d, NoEvents)
        ELSE IF t.v = "End" THEN
            LET l == read_int(t.rest)
                ev(o) == <<Event("List", "End", Take(t.rest, 4), l.v, Len(l.rest), 0, 0, o)>>
            IN  IF ~l.ok THEN Bad(l.err, l.rest, d, NoEvents)
                ELSE Val(<<"End">>, l.rest, d, ev("ok"))
        ELSE IF t.v \in {"List", "Compound"} THEN
            check_depth(t.rest, d, read_list(t.v, 0, t.rest, d + 1, g + 1))
        ELSE read_list(t.v, ElemSize(t.v), t.rest, d, g)

\* read_any_list up to the loop of read_list; g counts the check_depth calls
\* the caller made around this call
read_any_list(s, d, g) ==
    LET t == read_tag(s)
    IN  IF ~t.ok THEN Bad(t.err, t.rest, d, NoEvents)
        ELSE IF t.v = "End" THEN
            LET l == read_int(t.rest)
                ev(o) == <<Event("List", "End", Take(t.rest, 4), l.v, Len(l.rest), 0, 0, o)>>
            IN  IF ~l.ok THEN Bad(l.err, l.rest, d, NoEvents)
                ELSE IF l.v = 0 THEN Val(<<"End">>, l.rest, d, ev("ok"))
                ELSE Bad("NonZeroEndList", l.rest, d, ev("NonZeroEndList"))
        ELSE IF t.v \in {"List", "Compound"} THEN
            check_depth(t.rest, d, read_list(t.v, 0, t.rest, d + 1, g + 1))
        ELSE read_list(t.v, ElemSize(t.v), t.rest, d, g)

\* Value::List(list)
IntoValue(r) == IF r.kind = "value" THEN [r EXCEPT !.v = <<"List", r.v>>] ELSE r

\* read_value
read_value(tag, s, d) ==
    CASE tag = "Byte" -> Scalar(tag, read_byte(s), d)
      [] tag = "Short" -> Scalar(tag, read_short(s), d)
      [] tag = "Int" -> Scalar(tag, read_int(s), d)
      [] tag = "Long" -> Scalar(tag, read_long(s), d)
      [] tag = "Float" -> Scalar(tag, read_float(s), d)
      [] tag = "Double" -> Scalar(tag, read_double(s), d)
      [] tag = "ByteArray" -> Scalar(tag, read_byte_array(s), d)
      [] tag = "String" -> Scalar(tag, read_string(s), d)
      [] tag = "List" ->
            IntoValue(check_depth(s, d, read_any_list(s, d + 1, 1)))
      [] tag = "Compound" ->
            check_depth(s, d, Call(CompoundFrame(1), s, d + 1, NoEvents))
      [] tag = "IntArray" -> Scalar(tag, read_int_array(s), d)
      [] tag = "LongArray" -> Scalar(tag, read_long_array(s), d)

\* the read_elem closure read_any_list hands to read_list
read_elem(elem_type, s, d) ==
    CASE elem_type = "Byte" -> Element(read_byte(s), d)
      [] elem_type = "Short" -> Element(read_short(s), d)
      [] elem_type = "Int" -> Element(read_int(s), d)
      [] elem_type = "Long" -> Element(read_long(s), d)
      [] elem_type = "Float" -> Element(read_float(s), d)
      [] elem_type = "Double" -> Element(read_double(s), d)
      [] elem_type = "ByteArray" -> Element(read_byte_array(s), d)
      [] elem_type = "String" -> Element(read_string(s), d)
      [] elem_type = "List" -> read_any_list(s, d, 0)
      [] elem_type = "Compound" -> Call(CompoundFrame(0), s, d, NoEvents)
      [] elem_type = "IntArray" -> Element(read_int_array(s), d)
      [] elem_type = "LongArray" -> Element(read_long_array(s), d)

\* Compound::insert that keeps the value a key already has
Insert_keep_first(c, k, v) ==
    [x \in (DOMAIN c) \cup {k} |-> IF x \in DOMAIN c THEN c[x] ELSE v]

\* Compound::insert: a later value replaces the one stored under the key
Insert(c, k, v) == [x \in (DOMAIN c) \cup {k} |-> IF x = k THEN v ELSE c[x]]

\* Compound::new()
EmptyCompound == << >>

(***************************************************************************)
(* The decoder as a machine                                                *)
(***************************************************************************)
Top == stack[Len(stack)]

Callers == SubSeq(stack, 1, Len(stack) - 1)

\* What is left of the slice when a read fails: read_exact on a slice that is
\* too short either leaves it alone or empties it, depending on the standard
\* library the crate is built with.
AfterError(kind, rest) == IF kind = "Io" THEN {rest, << >>} ELSE {rest}

\* an Err starts to propagate through the active calls
Raise(kind, rest, d, evs) ==
    /\ pc' = IF Len(stack) = 0 THEN "err" ELSE "unwind"
    /\ err' = kind
    /\ slice' \in AfterError(kind, rest)
    /\ depth' = d
    /\ last' = evs
    /\ UNCHANGED <<input, stack, root_name, root, doc, wireVars, scoreVars, bossVars>>

\* the innermost call returns Ok(v) to its caller: check_depth lowers the
\* depth, and the caller inserts (read_compound) or pushes (read_list) v
Return(v, rest, evs) ==
    /\ depth' = depth - Top.guards
    /\ slice' = rest
    /\ last' = evs
    /\ IF Len(stack) = 1
       THEN /\ stack' = << >>
            /\ pc' = "done"
            /\ root' = v
       ELSE LET caller == stack[Len(stack) - 1]
                into == IF Top.fn = "read_list" THEN <<"List", v>> ELSE <<"Compound", v>>
                acc == IF caller.fn = "read_compound"
                       THEN Insert(caller.acc, caller.key, into)
                       ELSE Append(caller.acc, v)
            IN  /\ stack' = [Callers EXCEPT ![Len(stack) - 1] =
                                [caller EXCEPT !.acc = acc, !.key = << >>]]
                /\ UNCHANGED <<pc, root>>
    /\ UNCHANGED <<input, err, root_name, doc, wireVars, scoreVars, bossVars>>

\* the innermost call goes on after reader outcome r; stored is its
\* collection with the value r.v added, key the compound key read for it
Continue(r, key, stored, evs) ==
    CASE r.kind = "err" -> Raise(r.err, r.rest, r.depth, evs \o r.evs)
      [] r.kind = "value" ->
            /\ stack' = [stack EXCEPT ![Len(stack)] = [Top EXCEPT !.acc = stored]]
            /\ slice' = r.rest
            /\ depth' = r.depth
            /\ last' = evs \o r.evs
            /\ UNCHANGED <<input, pc, err, root_name, root, doc, wireVars, scoreVars, bossVars>>
      [] r.kind = "call" ->
            /\ stack' = Append([stack EXCEPT ![Len(stack)] = [Top EXCEPT !.key = key]],
                               r.frame)
            /\ slice' = r.rest
            /\ depth' = r.depth
            /\ last' = evs \o r.evs
            /\ UNCHANGED <<input, pc, err, root_name, root, doc, wireVars, scoreVars, bossVars>>

\* from_binary with the cursor of the peek kept when the peek fails
FromBinary_commit_peek ==
    /\ pc = "start"
    /\ LET t == read_tag(slice)
           peek == read_string(t.rest)
       IN  IF ~t.ok THEN Raise(t.err, t.rest, depth, NoEvents)
           ELSE IF t.v # "Compound" THEN Raise("RootTagMismatch", t.rest, depth, NoEvents)
           ELSE /\ pc' = "run"
                /\ root_name' = IF peek.ok THEN <<"Some", peek.v>> ELSE <<"None">>
                /\ slice' = peek.rest
                /\ last' = IF peek.ok THEN peek.evs ELSE NoEvents
                /\ stack' = <<CompoundFrame(0)>>
                /\ UNCHANGED <<input, depth, err, root, doc, wireVars, scoreVars, bossVars>>

\* from_binary with the root name read before the root tag is looked at
FromBinary_name_first ==
    /\ pc = "start"
    /\ LET t == read_tag(slice)
           peek == read_string(t.rest)
           at == IF peek.ok THEN peek.rest ELSE t.rest
       IN  IF ~t.ok THEN Raise(t.err, t.rest, depth, NoEvents)
           ELSE IF t.v # "Compound" THEN Raise("RootTagMismatch", at, depth, NoEvents)
           ELSE /\ pc' = "run"
                /\ root_name' = IF peek.ok THEN <<"Some", peek.v>> ELSE <<"None">>
                /\ slice' = at
                /\ last' = IF peek.ok THEN peek.evs ELSE NoEvents
                /\ stack' = <<CompoundFrame(0)>>
                /\ UNCHANGED <<input, depth, err, root, doc, wireVars, scoreVars, bossVars>>

\* from_binary up to its call of read_compound
FromBinary ==
    /\ pc = "start"
    /\ LET t == read_tag(slice)
           peek == read_string(t.rest)
       IN  IF ~t.ok THEN Raise(t.err, t.rest, depth, NoEvents)
           ELSE IF t.v # "Compound" THEN Raise("RootTagMismatch", t.rest, depth, NoEvents)
           ELSE /\ pc' = "run"
                /\ root_name' = IF peek.ok THEN <<"Some", peek.v>> ELSE <<"None">>
                /\ slice' = IF peek.ok THEN peek.rest ELSE t.rest
                /\ last' = IF peek.ok THEN peek.evs ELSE NoEvents
                /\ stack' = <<CompoundFrame(0)>>
                /\ UNCHANGED <<input, depth, err, root, doc, wireVars, scoreVars, bossVars>>

\* one iteration of the loop of read_compound
ReadCompoundEntry ==
    /\ pc = "run"
    /\ Top.fn = "read_compound"
    /\ LET t == read_tag(slice)
           k == read_string(t.rest)
       IN  IF ~t.ok THEN Raise(t.err, t.rest, depth, NoEvents)
           ELSE IF t.v = "End" THEN Return(Top.acc, t.rest, NoEvents)
           ELSE IF ~k.ok THEN Raise(k.err, k.rest, depth, k.evs)
           ELSE LET r == read_value(t.v, k.rest, depth)
                IN  Continue(r, k.v, Insert(Top.acc, k.v, r.v), k.evs)

\* one iteration of the loop of read_list
ReadListElement ==
    /\ pc = "run"
    /\ Top.fn = "read_list"
    /\ Len(Top.acc) < Top.len
    /\ LET r == read_elem(Top.tag, slice, depth)
       IN  Continue(r, << >>, Append(Top.acc, r.v), NoEvents)

\* the loop of read_list has read `len` elements: Ok(list), converted by `into`
ReadListReturn ==
    /\ pc = "run"
    /\ Top.fn = "read_list"
    /\ Len(Top.acc) = Top.len
    /\ Return(<<Top.tag, Top.acc>>, slice, NoEvents)

\* the Err passes through one more active call (and its check_depth)
Unwind ==
    /\ pc = "unwind"
    /\ stack' = Callers
    /\ depth' = depth - Top.guards
    /\ pc' = IF Len(stack) = 1 THEN "err" ELSE "unwind"
    /\ UNCHANGED <<input, slice, err, root_name, root, last, doc, wireVars, scoreVars, bossVars>>

(***************************************************************************)
(* The encoder (binary/encode.rs), the mirror image of the decoder: Tag    *)
(* byte, then payload; a Compound writes each entry as (Tag, key, value)   *)
(* and then End; a List writes element Tag, 32-bit length, elements.       *)
(***************************************************************************)
\* n as u8, for an i8 or u8 n
U8(n) == (n + 256) % 256

\* u16 / i16 to_be_bytes
BE16(n) == <<((n + 65536) % 65536) \div 256, n % 256>>

\* i32::to_be_bytes
BE32(n) == <<U8(n \div 16777216), (n \div 65536) % 256, (n \div 256) % 256, n % 256>>

\* i64::to_be_bytes of <<high word, low word>>
BE64(w) == BE32(w[1]) \o BE32(w[2])

\* a surrogate code unit as a 3-byte sequence
Surrogate3(u) == <<237, 128 + ((u \div 64) % 64), 128 + (u % 64)>>

\* cesu8::to_java_cesu8: NUL becomes C0 80, a 4-byte sequence a surrogate pair
RECURSIVE ToModifiedUtf8(_)
ToModifiedUtf8(str) ==
    IF Len(str) = 0 THEN << >>
    ELSE IF str[1] = 0 THEN <<192, 128>> \o ToModifiedUtf8(Drop(str, 1))
    ELSE IF Utf8Width(str[1]) = 4 THEN
        LET c == (str[1] % 8) * 262144 + (str[2] % 64) * 4096 + (str[3] % 64) * 64
                 + (str[4] % 64) - 65536
        IN  Surrogate3(55296 + (c \div 1024)) \o Surrogate3(56320 + (c % 1024))
            \o ToModifiedUtf8(Drop(str, 4))
    ELSE <<str[1]>> \o ToModifiedUtf8(Drop(str, 1))

\* cesu8::is_valid_java_cesu8: text that is its own modified UTF-8
IsValidJavaCesu8(str) == \A i \in 1..Len(str) : str[i] # 0 /\ Utf8Width(str[i]) # 4

\* write_string: the text is converted only when it has to be
EncString(str) ==
    LET m == IF IsValidJavaCesu8(str) THEN str ELSE ToModifiedUtf8(str)
    IN  BE16(Len(m)) \o m

\* a < b in the order of Ord for str (bytewise)
LexLess(a, b) ==
    \E i \in 1..(Len(a) + 1) :
        /\ \A j \in 1..(i - 1) : j <= Len(b) /\ a[j] = b[j]
        /\ i <= Len(b)
        /\ (i > Len(a) \/ a[i] < b[i])

\* the first key of a non-empty key set, in the iteration order of the map
FirstKey(keys) == CHOOSE k \in keys : \A j \in keys : j = k \/ LexLess(k, j)

RECURSIVE EncPayload(_, _), EncElements(_, _), EncEntries(_, _)
\* the payload of a value of the given tag
EncPayload(tag, p) ==
    CASE tag = "Byte" -> <<U8(p)>>
      [] tag = "Short" -> BE16(p)
      [] tag = "Int" -> BE32(p)
      [] tag = "Long" -> BE64(p)
      [] tag = "Float" -> BE32(p)
      [] tag = "Double" -> BE64(p)
      [] tag = "ByteArray" -> BE32(Len(p)) \o [i \in 1..Len(p) |-> U8(p[i])]
      [] tag = "String" -> EncString(p)
      [] tag = "List" ->
            IF p[1] = "End" THEN <<0>> \o BE32(0)
            ELSE <<TagCode(p[1])>> \o BE32(Len(p[2])) \o EncElements(p[1], p[2])
      [] tag = "Compound" -> EncEntries(p, DOMAIN p) \o <<0>>
      [] tag = "IntArray" -> BE32(Len(p)) \o EncElements("Int", p)
      [] tag = "LongArray" -> BE32(Len(p)) \o EncElements("Long", p)

\* the elements of a list or array, one after the other
EncElements(tag, elems) ==
    IF Len(elems) = 0 THEN << >>
    ELSE EncPayload(tag, elems[1]) \o EncElements(tag, Tail(elems))

\* the entries of a compound: Tag, key, value
EncEntries(c, keys) ==
    IF keys = {} THEN << >>
    ELSE LET k == FirstKey(keys)
         IN  <<TagCode(c[k][1])>> \o EncString(k) \o EncPayload(c[k][1], c[k][2])
             \o EncEntries(c, keys \ {k})

\* to_binary(compound, root_name); name is <<"None">> or <<"Some", str>>
to_binary(c, name) ==
    <<10>> \o (IF name[1] = "Some" THEN EncString(name[2]) ELSE << >>)
    \o EncPayload("Compound", c)

(***************************************************************************)
(* The inputs of from_binary.  Any byte string is an input; the model      *)
(* draws it from four families:                                            *)
(*   "encoded": to_binary of a compound, with or without a root name;      *)
(*   "probe":   a root compound whose first entry (or first list element)  *)
(*              is a length-prefixed field with an arbitrary length field  *)
(*              and some bytes after it;                                   *)
(*   "root":    an arbitrary first byte and some bytes after it;           *)
(*   "chain":   containers nested in one another (see InitDepth).          *)
(***************************************************************************)
\* the number of keys a generated compound may hold
MaxEntries == 2

\* the bytes after a probed length field: at most MaxOnes bytes 01, then at
\* most MaxZeros bytes 00
MaxOnes == 2

MaxZeros == 6

Filler(k, z) == [i \in 1..k |-> 1] \o [i \in 1..z |-> 0]

\* a run of n bytes b
Run(n, b) == [i \in 1..n |-> b]

ValuePool ==
    << <<"Byte", -1>>,
       <<"Short", 258>>,
       <<"Int", -2>>,
       <<"Long", <<0, -1>>>>,
       <<"String", <<97, 0>>>>,
       <<"ByteArray", <<1, -1>>>>,
       <<"IntArray", <<7>>>>,
       <<"LongArray", << >>>>,
       <<"List", <<"End">>>>,
       <<"List", <<"Byte", << >>>>>>,
       <<"List", <<"String", <<<<97>>>>>>>>,
       <<"List", <<"Compound", <<Insert(EmptyCompound, <<120>>, <<"Byte", 1>>)>>>>>>,
       <<"List", <<"List", << <<"End">>, <<"Int", <<5>>>> >>>>>>,
       <<"Compound", Insert(EmptyCompound, << >>, <<"Double", <<1, 2>>>>)>> >>

NamePool == << <<"None">>, <<"Some", << >>>>, <<"Some", <<110>>>>, <<"Some", <<0>>>> >>

\* the i-th key of a generated compound
KeyOf(i) == <<96 + i>>

\* the compound holding ValuePool[f[i]] under KeyOf(i), for the i with f[i] > 0
RECURSIVE CompoundOf(_, _)
CompoundOf(f, n) ==
    IF n = 0 THEN EmptyCompound
    ELSE IF f[n] = 0 THEN CompoundOf(f, n - 1)
    ELSE Insert(CompoundOf(f, n - 1), KeyOf(n), ValuePool[f[n]])

\* a compound whose encoding is longer than 256 bytes and is valid UTF-8
LargeCompound ==
    Insert(Insert(EmptyCompound, <<97>>, <<"Byte", 1>>), <<98>>, <<"String", Run(256, 120)>>)

Lens32 ==
    << <<255, 255, 255, 255>>, <<128, 0, 0, 0>>, <<0, 0, 0, 0>>, <<0, 0, 0, 1>>,
       <<0, 0, 0, 2>>, <<0, 0, 0, 3>>, <<127, 255, 255, 255>>, <<32, 0, 0, 0>>,
       <<64, 0, 0, 0>> >>

Lens16 == << <<0, 0>>, <<0, 1>>, <<0, 2>>, <<128, 0>>, <<255, 255>> >>

ProbedFields == {"ByteArray", "String", "List", "IntArray", "LongArray"}

\* the bytes of a probe up to and including the probed length field
ProbeHead(field, elem, nested, raw) ==
    <<10, 0, 0>>
    \o (IF nested THEN <<9, 0, 0, TagCode(field)>> \o BE32(2) ELSE <<TagCode(field), 0, 0>>)
    \o (IF field = "List" THEN <<elem>> ELSE << >>)
    \o raw

\* the state in which from_binary is called on `bytes`
Start(d, bytes) ==
    /\ input = bytes
    /\ slice = bytes
    /\ depth = 0
    /\ stack = << >>
    /\ pc = "start"
    /\ err = "none"
    /\ root_name = <<"None">>
    /\ root = EmptyCompound
    /\ last = NoEvents
    /\ doc = d

WireIdle ==
    /\ w_value = << >>
    /\ w_buf = << >>
    /\ w_rest = << >>
    /\ w_out = << >>
    /\ w_again = << >>
    /\ w_pc = "idle"

\* the scoreboard is not in use
ScoresIdle ==
    /\ s_scores = << >>
    /\ s_old = << >>
    /\ s_diff = << >>
    /\ s_sent = << >>
    /\ s_pc = "idle"

\* the boss bar systems are not in use
BossIdle ==
    /\ b_client = << >>
    /\ b_old = << >>
    /\ b_changed = {}
    /\ b_bars = {}
    /\ b_despawned = {}
    /\ b_sent = << >>
    /\ b_layer_sent = << >>
    /\ b_ran = {}
    /\ b_shown = {}
    /\ b_pc = "idle"

InitEncoded ==
    \E f \in [1..MaxEntries -> 0..Len(ValuePool)], n \in 1..Len(NamePool) :
        LET c == CompoundOf(f, MaxEntries)
        IN  Start([family |-> "encoded", compound |-> c, name |-> NamePool[n]],
                  to_binary(c, NamePool[n]))

InitLarge ==
    \E n \in 1..2 :
        Start([family |-> "encoded", compound |-> LargeCompound, name |-> NamePool[n]],
              to_binary(LargeCompound, NamePool[n]))

InitProbe ==
    \E field \in ProbedFields, nested \in BOOLEAN, k \in 0..MaxOnes, z \in 0..MaxZeros :
        \E elem \in IF field = "List" THEN 0..12 ELSE {TagCode("Byte")} :
            \E i \in 1..(IF field = "String" THEN Len(Lens16) ELSE Len(Lens32)) :
                LET raw == IF field = "String" THEN Lens16[i] ELSE Lens32[i]
                IN  Start([family |-> "probe", field |-> field, elem |-> TagNames[elem + 1],
                           nested |-> nested, raw |-> raw, fill |-> <<k, z>>],
                          ProbeHead(field, elem, nested, raw) \o Filler(k, z))

\* a String field whose length has its top bit set, with that many bytes after it
InitLongString ==
    Start([family |-> "probe", field |-> "String", elem |-> "Byte", nested |-> FALSE,
           raw |-> <<128, 0>>, fill |-> <<0, 1>>],
          ProbeHead("String", 1, FALSE, <<128, 0>>) \o Run(32768, 120) \o <<0>>)

\* the entries of the compounds with repeated keys: the key, the value and
\* the bytes of the entry; the last holds a compound that repeats a key itself
DupEntries ==
    << [key |-> <<97>>, value |-> <<"Byte", 1>>, bytes |-> <<1, 0, 1, 97, 1>>],
       [key |-> <<97>>, value |-> <<"Byte", 2>>, bytes |-> <<1, 0, 1, 97, 2>>],
       [key |-> <<97>>, value |-> <<"Short", 258>>, bytes |-> <<2, 0, 1, 97, 1, 2>>],
       [key |-> <<98>>, value |-> <<"Byte", 1>>, bytes |-> <<1, 0, 1, 98, 1>>],
       [key |-> << >>, value |-> <<"String", <<120>>>>, bytes |-> <<8, 0, 0, 0, 1, 120>>],
       [key |-> <<97>>,
        value |-> <<"Compound", [k \in {<<97>>} |-> <<"Byte", 6>>]>>,
        bytes |-> <<10, 0, 1, 97, 1, 0, 1, 97, 5, 1, 0, 1, 97, 6, 0>>] >>

\* a compound has at most this many entries with repeated keys
MaxDuplicates == 3

\* the bytes of the entries es[1] .. es[n]
RECURSIVE EntryBytes(_, _)
EntryBytes(es, n) ==
    IF n = 0 THEN << >> ELSE EntryBytes(es, n - 1) \o DupEntries[es[n]].bytes

\* a root compound named "" whose entries repeat keys, and what follows its End
InitDup ==
    \E n \in 0..MaxDuplicates, tail \in {<< >>, <<1, 0, 1, 97, 9>>} :
        \E es \in [1..n -> 1..Len(DupEntries)] :
            Start([family |-> "dup", entries |-> es, tail |-> tail],
                  <<10, 0, 0>> \o EntryBytes(es, n) \o <<0>> \o tail)

\* what follows the first byte of a "root" input, before the filler: nothing,
\* or a length-prefixed string that is not modified UTF-8
RootHeads == {<< >>, <<0, 1, 255>>}

InitRoot ==
    \E first \in (0..13) \cup {255}, head \in RootHeads, k \in 0..MaxOnes, z \in 0..MaxZeros :
        Start([family |-> "root", first |-> first, head |-> head, fill |-> <<k, z>>],
              <<first>> \o head \o Filler(k, z))

(***************************************************************************)
(* "chain" documents: under the root compound, n containers nested in one  *)
(* another.  Level i is a Compound ("C") or a List ("L"), as the pattern   *)
(* says, repeated; a List holds one element, the next level; the innermost *)
(* List is empty and declares the element tag `inner`.                     *)
(***************************************************************************)
\* the patterns have this many places
PatternLen == 2

\* the chains are MAX_DEPTH - DepthMargin .. MAX_DEPTH + DepthMargin levels deep
DepthMargin == 1

InnerTags == {"End", "Byte", "List", "Compound"}

LevelKind(pattern, i) == IF i = 0 THEN "C" ELSE pattern[((i - 1) % Len(pattern)) + 1]

KindTag(kind) == IF kind = "C" THEN TagCode("Compound") ELSE TagCode("List")

\* the bytes that open level i of the chain
Open(d, i) ==
    LET kind == LevelKind(d.pattern, i)
    IN  (IF LevelKind(d.pattern, i - 1) = "C" THEN <<KindTag(kind), 0, 0>> ELSE << >>)
        \o (IF kind = "C" THEN << >>
            ELSE IF i = d.n THEN <<TagCode(d.inner)>> \o BE32(0)
            ELSE <<KindTag(LevelKind(d.pattern, i + 1))>> \o BE32(1))

\* the bytes that close level i of the chain
Close(d, i) == IF LevelKind(d.pattern, i) = "C" THEN <<0>> ELSE << >>

\* Open(d, lo) .. Open(d, hi), and Close(d, hi) .. Close(d, lo)
RECURSIVE Opens(_, _, _), Closes(_, _, _)
Opens(d, lo, hi) ==
    IF lo > hi THEN << >>
    ELSE IF lo = hi THEN Open(d, lo)
    ELSE LET mid == (lo + hi) \div 2 IN Opens(d, lo, mid) \o Opens(d, mid + 1, hi)

Closes(d, lo, hi) ==
    IF lo > hi THEN << >>
    ELSE IF lo = hi THEN Close(d, lo)
    ELSE LET mid == (lo + hi) \div 2 IN Closes(d, mid + 1, hi) \o Closes(d, lo, mid)

ChainBytes(d) == <<10, 0, 0>> \o Opens(d, 1, d.n) \o Closes(d, 1, d.n) \o <<0>>

InitChain ==
    \E pattern \in [1..PatternLen -> {"C", "L"}],
       n \in (MAX_DEPTH - DepthMargin)..(MAX_DEPTH + DepthMargin),
       inner \in InnerTags :
        LET d == [family |-> "chain", pattern |-> pattern, n |-> n, inner |-> inner]
        IN  /\ LevelKind(pattern, n) = "C" => inner = "End"
            /\ Start(d, ChainBytes(d))

InitDepth == InitChain /\ WireIdle /\ ScoresIdle /\ BossIdle

Init ==
    /\ InitEncoded \/ InitLarge \/ InitProbe \/ InitLongString \/ InitRoot \/ InitDup
    /\ WireIdle
    /\ ScoresIdle
    /\ BossIdle

Next ==
    \/ FromBinary
    \/ ReadCompoundEntry
    \/ ReadListElement
    \/ ReadListReturn
    \/ Unwind

Spec == Init /\ [][Next]_vars

\* from_binary on the chain documents
SpecDepth == InitDepth /\ [][Next]_vars

(***************************************************************************)
(* The packet codecs (Encode and Decode of valence_protocol).  A buffer is *)
(* a sequence of bytes; a decoder returns Ok(value, rest) or Fail(kind,    *)
(* rest), `rest` being what it leaves of the buffer.  An i32 or an f32 is  *)
(* its 32-bit word, signed; an i64 or an f64 is a pair of such words; a    *)
(* string is the sequence of its UTF-8 bytes.                              *)
(***************************************************************************)
\* the 7-bit groups of the i32 v taken as a u32, the least significant first
Groups(v) ==
    <<v % 128, (v \div 128) % 128, (v \div 16384) % 128, (v \div 2097152) % 128,
      (v \div 268435456) % 16>>

\* VarInt::encode that always writes the five groups
VarInt_encode_padded(v) ==
    LET g == Groups(v)
    IN  [i \in 1..5 |-> g[i] + (IF i < 5 THEN 128 ELSE 0)]

\* VarInt::encode: the groups up to the last that is not 0, each but the last
\* with the continuation bit
VarInt_encode(v) ==
    LET g == Groups(v)
        used == {i \in 1..5 : g[i] # 0} \cup {1}
        k == CHOOSE i \in used : \A j \in used : j <= i
    IN  [i \in 1..k |-> g[i] + (IF i < k THEN 128 ELSE 0)]

\* VarInt::decode: at most 5 bytes, up to the first without a continuation bit
VarInt_decode(s) ==
    LET n == IF Len(s) < 5 THEN Len(s) ELSE 5
        stops == {i \in 1..n : s[i] < 128}
        k == CHOOSE i \in stops : \A j \in stops : i <= j
        g(i) == IF i <= k THEN s[i] % 128 ELSE 0
        low == g(1) + g(2) * 128 + g(3) * 16384 + g(4) * 2097152
        top == g(5) % 16
    IN  IF stops = {}
        THEN IF n = 5 THEN Fail("VarIntTooLong", Drop(s, 5), NoEvents)
             ELSE Fail("Io", << >>, NoEvents)
        ELSE Ok((IF top >= 8 THEN top - 16 ELSE top) * 268435456 + low, Drop(s, k), NoEvents)

\* u8::decode
u8_decode(s) == read_u8(s)

\* bool::encode
bool_encode(x) == IF x THEN <<1>> ELSE <<0>>

\* bool::decode
bool_decode(s) ==
    LET n == read_u8(s)
    IN  IF ~n.ok THEN n
        ELSE IF n.v > 1 THEN Fail("InvalidBool", n.rest, NoEvents)
        ELSE Ok(n.v = 1, n.rest, NoEvents)

\* i32::encode and f32::encode: 4 bytes, big-endian
i32_encode(x) == <<U8(x \div 16777216), (x \div 65536) % 256, (x \div 256) % 256, x % 256>>

\* i64::encode and f64::encode: 8 bytes, big-endian
i64_encode(x) == i32_encode(x[1]) \o i32_encode(x[2])

\* the decoder of a fixed-width number of `width` bytes
Fixed_decode(width, s) == IF width = 4 THEN read_int(s) ELSE read_long(s)

\* the encoder of a fixed-width number of `width` bytes
Fixed_encode(width, x) == IF width = 4 THEN i32_encode(x) ELSE i64_encode(x)

\* a string may have this many UTF-16 code units
MAX_STRING_CHARS == 32767

\* str::encode: the number of bytes as a VarInt, then the bytes
String_encode(str) == VarInt_encode(Len(str)) \o str

\* String::decode once the length is read
String_take(l) ==
    IF ~l.ok THEN l
    ELSE IF l.v < 0 \/ l.v > MAX_STRING_CHARS * 3 \/ l.v > Len(l.rest)
         THEN Fail("InvalidString", l.rest, NoEvents)
    ELSE IF ~IsUtf8(Take(l.rest, l.v)) THEN Fail("InvalidString", l.rest, NoEvents)
    ELSE Ok(Take(l.rest, l.v), Drop(l.rest, l.v), NoEvents)

\* String::decode
String_decode(s) == String_take(VarInt_decode(s))

\* Vec<VarInt>::encode: the number of elements as a VarInt, then the elements
RECURSIVE VarInts_encode(_)
VarInts_encode(xs) ==
    IF xs = << >> THEN << >> ELSE VarInt_encode(Head(xs)) \o VarInts_encode(Tail(xs))

Vec_encode(xs) == VarInt_encode(Len(xs)) \o VarInts_encode(xs)

\* the loop of Vec<VarInt>::decode with n elements still to read
RECURSIVE VarInts_decode(_, _, _)
VarInts_decode(n, s, acc) ==
    IF n = 0 THEN Ok(acc, s, NoEvents)
    ELSE LET x == VarInt_decode(s)
         IN  IF ~x.ok THEN x ELSE VarInts_decode(n - 1, x.rest, Append(acc, x.v))

\* Vec<VarInt>::decode
Vec_decode(s) ==
    LET l == VarInt_decode(s)
    IN  IF ~l.ok THEN l
        ELSE IF l.v < 0 THEN Fail("InvalidLength", l.rest, NoEvents)
        \* an element takes a byte or more: the loop runs out of input
        ELSE IF l.v > Len(l.rest) THEN Fail("Io", << >>, NoEvents)
        ELSE VarInts_decode(l.v, l.rest, << >>)

\* "minecraft:"
Minecraft == <<109, 105, 110, 101, 99, 114, 97, 102, 116, 58>>

\* the characters a namespace may have: a-z, 0-9, '_', '.', '-'
NamespaceChars == (97..122) \cup (48..57) \cup {95, 46, 45}

\* the characters a path may have: those, and '/'
PathChars == NamespaceChars \cup {47}

\* Ident::new: "namespace:path" as it is, "path" with the default namespace
Ident_parse(str) ==
    LET colons == {i \in 1..Len(str) : str[i] = 58}
        c == CHOOSE i \in colons : \A j \in colons : i <= j
        all(t, chars) == t # << >> /\ \A i \in 1..Len(t) : t[i] \in chars
    IN  IF colons = {}
        THEN IF all(str, PathChars) THEN Ok(Minecraft \o str, << >>, NoEvents)
             ELSE Fail("InvalidIdent", << >>, NoEvents)
        ELSE IF all(Take(str, c - 1), NamespaceChars) /\ all(Drop(str, c), PathChars)
             THEN Ok(str, << >>, NoEvents)
             ELSE Fail("InvalidIdent", << >>, NoEvents)

\* Ident::decode once the string is read
Ident_from(str) ==
    IF ~str.ok THEN str
    ELSE LET id == Ident_parse(str.v)
         IN  IF id.ok THEN Ok(id.v, str.rest, NoEvents) ELSE Fail(id.err, str.rest, NoEvents)

\* Ident::decode: a string, parsed
Ident_decode(s) == Ident_from(String_decode(s))

(***************************************************************************)
(* IdOr<T> (id_or.rs), with String for T.  A value is <<"Id", id>>,        *)
(* <<"Inline", value>> or <<"Phantom">>.  Encoding yields the set of what  *)
(* the call can do, <<"Ok", bytes>> or <<"Panic">>, and decoding the set   *)
(* of <<"Ok", value, rest>>, <<"Err", kind, rest>> or <<"Panic">>: i32     *)
(* arithmetic that overflows panics in a build with overflow checks and    *)
(* wraps in one without.                                                   *)
(***************************************************************************)
I32_MAX == 2147483647

I32_MIN == -2147483647 - 1

\* T::encode
T_encode(value) == String_encode(value)

\* T::decode
T_decode(s) == String_decode(s)

\* the outcomes of a + 1 on i32
AddOne(a) == IF a = I32_MAX THEN {<<"Panic">>, <<"Ok", I32_MIN>>} ELSE {<<"Ok", a + 1>>}

\* the outcomes of a - 1 on i32
SubOne(a) == IF a = I32_MIN THEN {<<"Panic">>, <<"Ok", I32_MAX>>} ELSE {<<"Ok", a - 1>>}

\* IdOr::encode: the integers it writes are i32, not VarInt
IdOr_encode(v) ==
    CASE v[1] = "Id" ->
            {IF n[1] = "Panic" THEN n ELSE <<"Ok", i32_encode(n[2])>> : n \in AddOne(v[2])}
      [] v[1] = "Inline" -> {<<"Ok", i32_encode(0) \o T_encode(v[2])>>}
      [] OTHER -> {<<"Ok", << >>>>}

\* IdOr::decode for the sentinel, once the value is read
IdOr_inline(value) ==
    IF ~value.ok THEN {<<"Err", value.err, value.rest>>}
    ELSE {<<"Ok", <<"Inline", value.v>>, value.rest>>}

\* IdOr::decode once the VarInt is read
IdOr_from(id) ==
    IF ~id.ok THEN {<<"Err", id.err, id.rest>>}
    ELSE IF id.v = 0 THEN IdOr_inline(T_decode(id.rest))
    ELSE {IF n[1] = "Panic" THEN n ELSE <<"Ok", <<"Id", n[2]>>, id.rest>> :
            n \in SubOne(id.v)}

\* IdOr::decode
IdOr_decode(buf) == IdOr_from(VarInt_decode(buf))

(***************************************************************************)
(* Node and Parser (packets/play/commands_s2c.rs).  A Parser is the tuple  *)
(* of its variant's name and fields; an Option is <<"None">> or            *)
(* <<"Some", x>>; NodeData is <<"Root">>, <<"Literal", name>> or           *)
(* <<"Argument", name, parser, suggestion>>; a Node is a record of its     *)
(* fields.                                                                 *)
(***************************************************************************)
None == <<"None">>

Some(x) == <<"Some", x>>

\* the discriminant Parser::encode writes for a variant
ParserId(name) ==
    CASE name = "Bool" -> 0
      [] name = "Float" -> 1
      [] name = "Double" -> 2
      [] name = "Integer" -> 3
      [] name = "Long" -> 4
      [] name = "String" -> 5
      [] name = "Entity" -> 6
      [] name = "GameProfile" -> 7
      [] name = "BlockPos" -> 8
      [] name = "ColumnPos" -> 9
      [] name = "Vec3" -> 10
      [] name = "Vec2" -> 11
      [] name = "BlockState" -> 12
      [] name = "BlockPredicate" -> 13
      [] name = "ItemStack" -> 14
      [] name = "ItemPredicate" -> 15
      [] name = "Color" -> 16
      [] name = "Component" -> 17
      [] name = "Message" -> 18
      [] name = "NbtCompoundTag" -> 19
      [] name = "NbtTag" -> 20
      [] name = "NbtPath" -> 21
      [] name = "Objective" -> 22
      [] name = "ObjectiveCriteria" -> 23
      [] name = "Operation" -> 24
      [] name = "Particle" -> 25
      [] name = "Angle" -> 26
      [] name = "Rotation" -> 27
      [] name = "ScoreboardSlot" -> 28
      [] name = "ScoreHolder" -> 29
      [] name = "Swizzle" -> 30
      [] name = "Team" -> 31
      [] name = "ItemSlot" -> 32
      [] name = "ResourceLocation" -> 33
      [] name = "Function" -> 34
      [] name = "EntityAnchor" -> 35
      [] name = "IntRange" -> 36
      [] name = "FloatRange" -> 37
      [] name = "Dimension" -> 38
      [] name = "GameMode" -> 39
      [] name = "Time" -> 40
      [] name = "ResourceOrTag" -> 41
      [] name = "ResourceOrTagKey" -> 42
      [] name = "Resource" -> 43
      [] name = "ResourceKey" -> 44
      [] name = "TemplateMirror" -> 45
      [] name = "TemplateRotation" -> 46
      [] name = "Uuid" -> 47

\* the variant Parser::decode reads for a discriminant
ParserOfId(id) ==
    CASE id = 0 -> "Bool"
      [] id = 1 -> "Float"
      [] id = 2 -> "Double"
      [] id = 3 -> "Integer"
      [] id = 4 -> "Long"
      [] id = 5 -> "String"
      [] id = 6 -> "Entity"
      [] id = 7 -> "GameProfile"
      [] id = 8 -> "BlockPos"
      [] id = 9 -> "ColumnPos"
      [] id = 10 -> "Vec3"
      [] id = 11 -> "Vec2"
      [] id = 12 -> "BlockState"
      [] id = 13 -> "BlockPredicate"
      [] id = 14 -> "ItemStack"
      [] id = 15 -> "ItemPredicate"
      [] id = 16 -> "Color"
      [] id = 17 -> "Component"
      [] id = 18 -> "Message"
      [] id = 19 -> "NbtCompoundTag"
      [] id = 20 -> "NbtTag"
      [] id = 21 -> "NbtPath"
      [] id = 22 -> "Objective"
      [] id = 23 -> "ObjectiveCriteria"
      [] id = 24 -> "Operation"
      [] id = 25 -> "Particle"
      [] id = 26 -> "Angle"
      [] id = 27 -> "Rotation"
      [] id = 28 -> "ScoreboardSlot"
      [] id = 29 -> "ScoreHolder"
      [] id = 30 -> "Swizzle"
      [] id = 31 -> "Team"
      [] id = 32 -> "ItemSlot"
      [] id = 33 -> "ResourceLocation"
      [] id = 34 -> "Function"
      [] id = 35 -> "EntityAnchor"
      [] id = 36 -> "IntRange"
      [] id = 37 -> "FloatRange"
      [] id = 38 -> "Dimension"
      [] id = 39 -> "GameMode"
      [] id = 40 -> "Time"
      [] id = 41 -> "ResourceOrTag"
      [] id = 42 -> "ResourceOrTagKey"
      [] id = 43 -> "Resource"
      [] id = 44 -> "ResourceKey"
      [] id = 45 -> "TemplateMirror"
      [] id = 46 -> "TemplateRotation"
      [] id = 47 -> "Uuid"
      [] OTHER -> "unknown"

\* the variants with a minimum and a maximum
MinMaxParsers == {"Float", "Double", "Integer", "Long"}

\* the variants with a registry
RegistryParsers == {"ResourceOrTag", "ResourceOrTagKey", "Resource", "ResourceKey"}

\* the bytes of the f32, f64, i32 or i64 a variant has for minimum and maximum
MinMaxWidth(name) == IF name \in {"Float", "Integer"} THEN 4 ELSE 8

StringArgs == <<"SingleWord", "QuotablePhrase", "GreedyPhrase">>

\* StringArg::encode (derived): the index of the variant as a VarInt
StringArg_encode(arg) == VarInt_encode((CHOOSE i \in 1..Len(StringArgs) : StringArgs[i] = arg) - 1)

\* StringArg::decode (derived)
StringArg_decode(s) ==
    LET i == VarInt_decode(s)
    IN  IF ~i.ok THEN i
        ELSE IF i.v < 0 \/ i.v >= Len(StringArgs) THEN Fail("InvalidEnum", i.rest, NoEvents)
        ELSE Ok(StringArgs[i.v + 1], i.rest, NoEvents)

\* MinMax_encode with the maximum written before the minimum
MinMax_encode_max_first(width, min, max) ==
    <<(IF min[1] = "Some" THEN 1 ELSE 0) + (IF max[1] = "Some" THEN 2 ELSE 0)>>
    \o (IF max[1] = "Some" THEN Fixed_encode(width, max[2]) ELSE << >>)
    \o (IF min[1] = "Some" THEN Fixed_encode(width, min[2]) ELSE << >>)

\* the flags, the minimum and the maximum as Parser::encode writes them
MinMax_encode(width, min, max) ==
    <<(IF min[1] = "Some" THEN 1 ELSE 0) + (IF max[1] = "Some" THEN 2 ELSE 0)>>
    \o (IF min[1] = "Some" THEN Fixed_encode(width, min[2]) ELSE << >>)
    \o (IF max[1] = "Some" THEN Fixed_encode(width, max[2]) ELSE << >>)

\* Parser::encode
Parser_encode(p) ==
    <<ParserId(p[1])>>
    \o CASE p[1] \in MinMaxParsers -> MinMax_encode(MinMaxWidth(p[1]), p[2], p[3])
         [] p[1] = "String" -> StringArg_encode(p[2])
         [] p[1] = "Entity" -> <<(IF p[2] THEN 1 ELSE 0) + (IF p[3] THEN 2 ELSE 0)>>
         [] p[1] = "ScoreHolder" -> bool_encode(p[2])
         [] p[1] \in RegistryParsers -> String_encode(p[2])
         [] OTHER -> << >>

\* bit `mask` (a power of 2) of the byte `flags` is set
Bit(flags, mask) == (flags \div mask) % 2 = 1

\* Some(x) of a decoded x
SomeOf(r) == IF r.ok THEN Ok(Some(r.v), r.rest, NoEvents) ELSE r

\* the minimum or the maximum of decode_min_max
Optional(present, width, s) ==
    IF present THEN SomeOf(Fixed_decode(width, s)) ELSE Ok(None, s, NoEvents)

\* decode_min_max once min and max are read
min_max_pair(min, max) ==
    IF ~max.ok THEN max ELSE Ok(<<min, max.v>>, max.rest, NoEvents)

\* decode_min_max once min is read
min_max_max(width, flags, min) ==
    IF ~min.ok THEN min
    ELSE min_max_pair(min.v, Optional(Bit(flags, 2), width, min.rest))

\* decode_min_max once the flags are read
min_max_min(width, flags) ==
    IF ~flags.ok THEN flags
    ELSE min_max_max(width, flags.v, Optional(Bit(flags.v, 1), width, flags.rest))

\* decode_min_max
decode_min_max(width, s) == min_max_min(width, u8_decode(s))

\* the variant `name` with the minimum and the maximum read
MinMaxParser(name, minmax) ==
    IF ~minmax.ok THEN minmax
    ELSE Ok(<<name, minmax.v[1], minmax.v[2]>>, minmax.rest, NoEvents)

\* the variant `name` with the one field read
FieldParser(name, field) ==
    IF ~field.ok THEN field ELSE Ok(<<name, field.v>>, field.rest, NoEvents)

\* EntityParser with the bits of single and only_players exchanged
EntityParser_swapped(flags) ==
    IF ~flags.ok THEN flags
    ELSE Ok(<<"Entity", Bit(flags.v, 2), Bit(flags.v, 1)>>, flags.rest, NoEvents)

\* Parser::Entity with the flags read
EntityParser(flags) ==
    IF ~flags.ok THEN flags
    ELSE Ok(<<"Entity", Bit(flags.v, 1), Bit(flags.v, 2)>>, flags.rest, NoEvents)

\* Parser_variant with an unknown discriminant read as Parser::Bool
Parser_variant_lenient(name, s) ==
    CASE name \in MinMaxParsers -> MinMaxParser(name, decode_min_max(MinMaxWidth(name), s))
      [] name = "String" -> FieldParser(name, StringArg_decode(s))
      [] name = "Entity" -> EntityParser(u8_decode(s))
      [] name = "ScoreHolder" -> FieldParser(name, bool_decode(s))
      [] name \in RegistryParsers -> FieldParser(name, Ident_decode(s))
      [] name = "unknown" -> Ok(<<"Bool">>, s, NoEvents)
      [] OTHER -> Ok(<<name>>, s, NoEvents)

\* Parser::decode for the variant `name`
Parser_variant(name, s) ==
    CASE name \in MinMaxParsers -> MinMaxParser(name, decode_min_max(MinMaxWidth(name), s))
      [] name = "String" -> FieldParser(name, StringArg_decode(s))
      [] name = "Entity" -> EntityParser(u8_decode(s))
      [] name = "ScoreHolder" -> FieldParser(name, bool_decode(s))
      [] name \in RegistryParsers -> FieldParser(name, Ident_decode(s))
      [] name = "unknown" -> Fail("UnknownParser", s, NoEvents)
      [] OTHER -> Ok(<<name>>, s, NoEvents)

\* Parser::decode once the discriminant is read
Parser_of(id) == IF ~id.ok THEN id ELSE Parser_variant(ParserOfId(id.v), id.rest)

\* Parser::decode
Parser_decode(s) == Parser_of(u8_decode(s))

\* the bits of a 32-bit word without the sign bit
Magnitude(x) == IF x < 0 THEN (x + I32_MAX) + 1 ELSE x

\* the f32 with these bits is a NaN: exponent 0xFF, mantissa not 0
f32_is_nan(x) == Magnitude(x) > 2139095040

\* the f64 with these bits is a NaN: exponent 0x7FF, mantissa not 0
f64_is_nan(x) == Magnitude(x[1]) > 2146435072 \/ (Magnitude(x[1]) = 2146435072 /\ x[2] # 0)

\* == of f32 or f64 (IEEE 754): a NaN equals nothing, 0.0 equals -0.0
float_eq(width, a, b) ==
    IF width = 4
    THEN ~f32_is_nan(a) /\ ~f32_is_nan(b) /\ (a = b \/ (Magnitude(a) = 0 /\ Magnitude(b) = 0))
    ELSE /\ ~f64_is_nan(a) /\ ~f64_is_nan(b)
         /\ a = b \/ (Magnitude(a[1]) = 0 /\ a[2] = 0 /\ Magnitude(b[1]) = 0 /\ b[2] = 0)

\* == of Option<f32> or Option<f64>
Option_eq(width, a, b) == a[1] = b[1] /\ (a[1] = "Some" => float_eq(width, a[2], b[2]))

\* == of Parser (derived PartialEq)
Parser_eq(p, q) ==
    /\ p[1] = q[1]
    /\ IF p[1] \in {"Float", "Double"}
       THEN Option_eq(MinMaxWidth(p[1]), p[2], q[2]) /\ Option_eq(MinMaxWidth(p[1]), p[3], q[3])
       ELSE p = q

\* "ask_server"
AskServer_name == <<97, 115, 107, 95, 115, 101, 114, 118, 101, 114>>

\* "all_recipes"
AllRecipes_name == <<97, 108, 108, 95, 114, 101, 99, 105, 112, 101, 115>>

\* "available_sounds"
AvailableSounds_name == <<97, 118, 97, 105, 108, 97, 98, 108, 101, 95, 115, 111, 117, 110, 100, 115>>

\* "available_biomes"
AvailableBiomes_name == <<97, 118, 97, 105, 108, 97, 98, 108, 101, 95, 98, 105, 111, 109, 101, 115>>

\* "summonable_entities"
SummonableEntities_name == <<115, 117, 109, 109, 111, 110, 97, 98, 108, 101, 95, 101, 110, 116, 105, 116, 105, 101, 115>>

\* the identifier Node::encode writes for a suggestion
SuggestionName(suggestion) ==
    CASE suggestion = "AskServer" -> AskServer_name
      [] suggestion = "AllRecipes" -> AllRecipes_name
      [] suggestion = "AvailableSounds" -> AvailableSounds_name
      [] suggestion = "AvailableBiomes" -> AvailableBiomes_name
      [] suggestion = "SummonableEntities" -> SummonableEntities_name

\* SuggestionOf with every identifier but four of the table read as AskServer
SuggestionOf_default(str) ==
    CASE str = Minecraft \o AllRecipes_name -> "AllRecipes"
      [] str = Minecraft \o AvailableSounds_name -> "AvailableSounds"
      [] str = Minecraft \o AvailableBiomes_name -> "AvailableBiomes"
      [] str = Minecraft \o SummonableEntities_name -> "SummonableEntities"
      [] OTHER -> "AskServer"

\* the suggestion Node::decode reads for an identifier
SuggestionOf(str) ==
    CASE str = Minecraft \o AskServer_name -> "AskServer"
      [] str = Minecraft \o AllRecipes_name -> "AllRecipes"
      [] str = Minecraft \o AvailableSounds_name -> "AvailableSounds"
      [] str = Minecraft \o AvailableBiomes_name -> "AvailableBiomes"
      [] str = Minecraft \o SummonableEntities_name -> "SummonableEntities"
      [] OTHER -> "unknown"

\* Node::encode: node_type
node_type(data) ==
    CASE data[1] = "Root" -> 0
      [] data[1] = "Literal" -> 1
      [] data[1] = "Argument" -> 2

\* Node::encode: has_suggestion
has_suggestion(data) == data[1] = "Argument" /\ data[4][1] = "Some"

\* the flags with the bit of has_suggestion set for every node that is not Root
encode_flags_any_kind(n) ==
    node_type(n.data)
    + (IF n.executable THEN 4 ELSE 0)
    + (IF n.redirect_node[1] = "Some" THEN 8 ELSE 0)
    + (IF n.data[1] # "Root" THEN 16 ELSE 0)

\* Node::encode: flags, an or of distinct bits
encode_flags(n) ==
    node_type(n.data)
    + (IF n.executable THEN 4 ELSE 0)
    + (IF n.redirect_node[1] = "Some" THEN 8 ELSE 0)
    + (IF has_suggestion(n.data) THEN 16 ELSE 0)

\* Node::encode
Node_encode(n) ==
    <<encode_flags(n)>>
    \o Vec_encode(n.children)
    \o (IF n.redirect_node[1] = "Some" THEN VarInt_encode(n.redirect_node[2]) ELSE << >>)
    \o CASE n.data[1] = "Root" -> << >>
         [] n.data[1] = "Literal" -> String_encode(n.data[2])
         [] n.data[1] = "Argument" ->
                String_encode(n.data[2])
                \o Parser_encode(n.data[3])
                \o (IF has_suggestion(n.data) THEN String_encode(SuggestionName(n.data[4][2]))
                    ELSE << >>)

\* NodeData::Literal with the name read
Literal_of(name) ==
    IF ~name.ok THEN name ELSE Ok(<<"Literal", name.v>>, name.rest, NoEvents)

\* NodeData::Argument with the identifier of the suggestion read
Argument_suggestion(name, parser, ident) ==
    IF ~ident.ok THEN ident
    ELSE IF SuggestionOf(ident.v) = "unknown"
         THEN Fail("UnknownSuggestion", ident.rest, NoEvents)
    ELSE Ok(<<"Argument", name, parser, Some(SuggestionOf(ident.v))>>, ident.rest, NoEvents)

\* NodeData::Argument with the parser read
Argument_parser(flags, name, parser) ==
    IF ~parser.ok THEN parser
    ELSE IF ~Bit(flags, 16)
         THEN Ok(<<"Argument", name, parser.v, None>>, parser.rest, NoEvents)
    ELSE Argument_suggestion(name, parser.v, Ident_decode(parser.rest))

\* NodeData::Argument with the name read
Argument_name(flags, name) ==
    IF ~name.ok THEN name ELSE Argument_parser(flags, name.v, Parser_decode(name.rest))

\* NodeData_decode with the kind 3 read as Root
NodeData_decode_total(flags, s) ==
    CASE flags % 4 = 1 -> Literal_of(String_decode(s))
      [] flags % 4 = 2 -> Argument_name(flags, String_decode(s))
      [] OTHER -> Ok(<<"Root">>, s, NoEvents)

\* the node data Node::decode reads for flags & 0x3
NodeData_decode(flags, s) ==
    CASE flags % 4 = 0 -> Ok(<<"Root">>, s, NoEvents)
      [] flags % 4 = 1 -> Literal_of(String_decode(s))
      [] flags % 4 = 2 -> Argument_name(flags, String_decode(s))
      [] OTHER -> Fail("InvalidNodeType", s, NoEvents)

\* Node_of with `executable` taken from the bit of the redirect
Node_of_wrong_bit(flags, children, redirect_node, node_data) ==
    IF ~node_data.ok THEN node_data
    ELSE Ok([children |-> children,
             data |-> node_data.v,
             executable |-> Bit(flags, 8),
             redirect_node |-> redirect_node],
            node_data.rest, NoEvents)

\* Node::decode once all is read
Node_of(flags, children, redirect_node, node_data) ==
    IF ~node_data.ok THEN node_data
    ELSE Ok([children |-> children,
             data |-> node_data.v,
             executable |-> Bit(flags, 4),
             redirect_node |-> redirect_node],
            node_data.rest, NoEvents)

\* Node::decode once a redirect_node is read
Node_redirected(flags, children, redirect_node) ==
    IF ~redirect_node.ok THEN redirect_node
    ELSE Node_of(flags, children, Some(redirect_node.v),
                 NodeData_decode(flags, redirect_node.rest))

\* Node_children with a redirect read whatever bit 3 is
Node_children_always_redirect(flags, children) ==
    IF ~children.ok THEN children
    ELSE Node_redirected(flags, children.v, VarInt_decode(children.rest))

\* Node::decode once the children are read
Node_children(flags, children) ==
    IF ~children.ok THEN children
    ELSE IF Bit(flags, 8)
         THEN Node_redirected(flags, children.v, VarInt_decode(children.rest))
    ELSE Node_of(flags, children.v, None, NodeData_decode(flags, children.rest))

\* Node::decode once the flags are read
Node_flags(flags) ==
    IF ~flags.ok THEN flags ELSE Node_children(flags.v, Vec_decode(flags.rest))

\* Node::decode
Node_decode(s) == Node_flags(u8_decode(s))

(***************************************************************************)
(* The packet codecs at work: a value is encoded into a buffer, with some  *)
(* bytes of what follows it on the wire after it, and the buffer is        *)
(* decoded; or a buffer off the wire is decoded.                           *)
(*   w_value  what the run starts from                                     *)
(*   w_buf    the buffer to decode                                         *)
(*   w_out    <<"Ok", value>>, <<"Err", kind>> or <<"Panic">>              *)
(*   w_rest   what a decoder left of the buffer                            *)
(*   w_pc     "value", "bytes", "decoded", "again" or "panic"              *)
(*   w_again  what encode wrote for the node decode returned               *)
(***************************************************************************)
\* from_binary is not in use
NbtIdle ==
    /\ input = << >>
    /\ slice = << >>
    /\ depth = 0
    /\ stack = << >>
    /\ pc = "idle"
    /\ err = "none"
    /\ root_name = None
    /\ root = EmptyCompound
    /\ last = NoEvents
    /\ doc = [family |-> "none"]

\* the bytes that follow a value on the wire
Tails == {<< >>, <<0>>, <<1, 97>>, <<2, 97>>, <<1, 255>>, <<0, 7>>}

RegistryIds == {0, 1, 126, 127, 128, 16383, I32_MAX - 1, I32_MAX}

InlineValues == {<< >>, <<97>>, <<195, 169, 0>>}

\* the VarInt a buffer off the wire starts with
WireInts == {0, 1, 2, 127, 128, 129, I32_MAX, -1, I32_MIN + 1, I32_MIN}

\* buffers that do not start with a VarInt
NoVarInt == {<< >>, <<128>>, <<255, 255, 255, 255>>, <<128, 128, 128, 128, 128, 1>>}

\* a value to encode
StartValue(codec, v, tail) ==
    /\ w_value = [codec |-> codec, family |-> "value", v |-> v, tail |-> tail]
    /\ w_buf = << >>
    /\ w_rest = << >>
    /\ w_out = << >>
    /\ w_again = << >>
    /\ w_pc = "value"

InitIdOr ==
    \/ \E id \in RegistryIds, tail \in Tails : StartValue("IdOr", <<"Id", id>>, tail)
    \/ \E value \in InlineValues, tail \in Tails : StartValue("IdOr", <<"Inline", value>>, tail)
    \/ \E tail \in Tails : StartValue("IdOr", <<"Phantom">>, tail)
    \/ \E n \in WireInts, tail \in Tails :
        /\ w_value = [codec |-> "IdOr", family |-> "wire", n |-> n, tail |-> tail]
        /\ w_buf = VarInt_encode(n) \o tail
        /\ w_rest = << >>
        /\ w_out = << >>
        /\ w_again = << >>
        /\ w_pc = "bytes"
    \/ \E bytes \in NoVarInt :
        /\ w_value = [codec |-> "IdOr", family |-> "malformed"]
        /\ w_buf = bytes
        /\ w_rest = << >>
        /\ w_out = << >>
        /\ w_again = << >>
        /\ w_pc = "bytes"

\* the encoder has returned
Encoded(r) ==
    IF r[1] = "Panic"
    THEN /\ w_pc' = "panic"
         /\ w_out' = r
         /\ UNCHANGED <<w_value, w_buf, w_rest, w_again, nbtVars, scoreVars, bossVars>>
    ELSE /\ w_pc' = "bytes"
         /\ w_buf' = r[2] \o w_value.tail
         /\ UNCHANGED <<w_value, w_out, w_rest, w_again, nbtVars, scoreVars, bossVars>>

\* the decoder has returned
Decoded(r) ==
    /\ w_pc' = IF r[1] = "Panic" THEN "panic" ELSE "decoded"
    /\ w_out' = IF r[1] = "Panic" THEN r ELSE <<r[1], r[2]>>
    /\ w_rest' = IF r[1] = "Panic" THEN << >> ELSE r[3]
    /\ UNCHANGED <<w_value, w_buf, w_again, nbtVars, scoreVars, bossVars>>

\* a decoder's Result as an outcome
Outcome(r) == IF r.ok THEN <<"Ok", r.v, r.rest>> ELSE <<"Err", r.err, r.rest>>

IdOrEncode ==
    /\ w_pc = "value"
    /\ w_value.codec = "IdOr"
    /\ \E r \in IdOr_encode(w_value.v) : Encoded(r)

IdOrDecode ==
    /\ w_pc = "bytes"
    /\ w_value.codec = "IdOr"
    /\ \E r \in IdOr_decode(w_buf) : Decoded(r)

\* the parameters of the generated nodes
F32s == {1065353216, -1}

F64s == {<<1072693248, 0>>, <<-1, -2>>}

Options(xs) == {None} \cup {Some(x) : x \in xs}

Registries == {Minecraft \o <<97>>, <<120, 58, 98, 47, 99>>}

Names == {<< >>, <<102, 111, 111>>}

PlainParsers ==
    {ParserOfId(id) : id \in 0..47}
        \ (MinMaxParsers \cup RegistryParsers \cup {"String", "Entity", "ScoreHolder"})

ParserValues ==
    {<<name>> : name \in PlainParsers}
    \cup {<<name, min, max>> :
            name \in {"Float", "Integer"}, min \in Options(F32s), max \in Options(F32s)}
    \cup {<<name, min, max>> :
            name \in {"Double", "Long"}, min \in Options(F64s), max \in Options(F64s)}
    \cup {<<"String", StringArgs[i]>> : i \in 1..Len(StringArgs)}
    \cup {<<"Entity", single, only_players>> : single \in BOOLEAN, only_players \in BOOLEAN}
    \cup {<<"ScoreHolder", allow_multiple>> : allow_multiple \in BOOLEAN}
    \cup {<<name, registry>> : name \in RegistryParsers, registry \in Registries}

Suggestions ==
    {"AskServer", "AllRecipes", "AvailableSounds", "AvailableBiomes", "SummonableEntities"}

NodeDatas ==
    {<<"Root">>}
    \cup {<<"Literal", name>> : name \in Names}
    \cup {<<"Argument", name, parser, suggestion>> :
            name \in Names, parser \in ParserValues, suggestion \in Options(Suggestions)}

ChildLists == {<< >>, <<0>>, <<1, 300>>}

NodeTails == {<< >>, <<7>>}

InitNode ==
    \E data \in NodeDatas, executable \in BOOLEAN, children \in ChildLists,
       redirect_node \in Options({0, 300}), tail \in NodeTails :
        StartValue("Node",
                   [data |-> data, executable |-> executable, children |-> children,
                    redirect_node |-> redirect_node],
                   tail)

\* a buffer off the wire that holds a node
StartWire(codec, fields, bytes) ==
    /\ w_value = fields
    /\ w_buf = bytes
    /\ w_rest = << >>
    /\ w_out = << >>
    /\ w_again = << >>
    /\ w_pc = "bytes"

\* the identifier strings on the wire: the five of the table with and without
\* the namespace, other identifiers, and strings that are no identifier
WireIdents ==
    {Minecraft \o SuggestionName(x) : x \in Suggestions}
    \cup {SuggestionName(x) : x \in Suggestions}
    \cup {Minecraft \o <<97, 115, 107>>, <<120, 58>> \o AskServer_name,
          Minecraft \o AskServer_name \o <<115>>, <<65, 115, 107>>, << >>}

\* the parsers on the wire
WireParsers == {<<"Bool">>, <<"Integer", Some(5), None>>}

\* a node on the wire: the flags, and after them the fields the flags announce
InitNodeWire ==
    \E flags \in 0..255, children \in {<< >>, <<2>>}, parser \in WireParsers,
       ident \in WireIdents, tail \in NodeTails :
        /\ (flags % 4 # 2 \/ ~Bit(flags, 16)) => ident = << >>
        /\ flags % 4 # 2 => parser = <<"Bool">>
        /\ StartWire("Node",
                     [codec |-> "Node", family |-> "wire", flags |-> flags,
                      children |-> children, redirect |-> 300, name |-> <<102, 111, 111>>,
                      parser |-> parser, ident |-> ident, tail |-> tail],
                     <<flags>>
                     \o Vec_encode(children)
                     \o (IF Bit(flags, 8) THEN VarInt_encode(300) ELSE << >>)
                     \o (IF flags % 4 \in {1, 2} THEN String_encode(<<102, 111, 111>>)
                         ELSE << >>)
                     \o (IF flags % 4 = 2 THEN Parser_encode(parser) ELSE << >>)
                     \o (IF flags % 4 = 2 /\ Bit(flags, 16) THEN String_encode(ident)
                         ELSE << >>)
                     \o tail)

\* a node of kind 3 on the wire that ends in its children or before its
\* redirect
InitNodeTruncated ==
    \E bytes \in {<<3>>, <<3, 1>>, <<3, 2, 0>>, <<11, 0>>, <<11, 1, 0, 128>>} :
        StartWire("Node", [codec |-> "Node", family |-> "truncated"], bytes)

NodeEncode ==
    /\ w_pc = "value"
    /\ w_value.codec = "Node"
    /\ Encoded(<<"Ok", Node_encode(w_value.v)>>)

NodeDecode ==
    /\ w_pc = "bytes"
    /\ w_value.codec = "Node"
    /\ Decoded(Outcome(Node_decode(w_buf)))

\* the node Node::decode returned for a buffer off the wire is encoded
NodeEncodeAgain ==
    /\ w_pc = "decoded"
    /\ w_value.codec = "Node"
    /\ w_value.family = "wire"
    /\ w_out[1] = "Ok"
    /\ w_again' = Node_encode(w_out[2])
    /\ w_pc' = "again"
    /\ UNCHANGED <<w_value, w_buf, w_rest, w_out, nbtVars, scoreVars, bossVars>>

\* a Parser to encode
InitParser ==
    \E parser \in ParserValues, tail \in NodeTails : StartValue("Parser", parser, tail)

\* what follows a discriminant on the wire
WirePayloads ==
    {<< >>, <<0>>, <<1>>, <<3>>, <<7, 9>>, <<1, 0, 0, 0, 5, 9>>, <<2, 0, 0, 0, 5>>,
     <<3, 0, 0, 0, 1, 0, 0, 0, 2, 0, 0, 0, 3, 0, 0, 0, 4, 9>>, <<1, 97, 9>>, <<1, 65>>}

\* a discriminant on the wire and what follows it
InitParserWire ==
    \E id \in 0..255, payload \in WirePayloads :
        StartWire("Parser",
                  [codec |-> "Parser", family |-> "wire", id |-> id, payload |-> payload],
                  <<id>> \o payload)

ParserEncode ==
    /\ w_pc = "value"
    /\ w_value.codec = "Parser"
    /\ Encoded(<<"Ok", Parser_encode(w_value.v)>>)

ParserDecode ==
    /\ w_pc = "bytes"
    /\ w_value.codec = "Parser"
    /\ Decoded(Outcome(Parser_decode(w_buf)))

\* the i32 values handed to VarInt::encode
VarIntValues ==
    {0, 1, 127, 128, 255, 16383, 16384, 2097151, 2097152, 268435455, 268435456,
     I32_MAX, -1, -128, I32_MIN}

\* a buffer off the wire has at most this many continuation bytes in a row
MaxContinuation == 7

\* a VarInt to encode
InitVarInt ==
    \E v \in VarIntValues, tail \in Tails : StartValue("VarInt", v, tail)

\* a buffer off the wire: continuation bytes of 7 bits `low`, then nothing or
\* a byte without the continuation bit and what follows it
InitVarIntWire ==
    \E k \in 0..MaxContinuation, low \in {0, 1, 127}, stop \in {<< >>, <<0>>, <<15>>, <<127>>},
       tail \in {<< >>, <<0>>, <<1, 255>>} :
        /\ stop = << >> => tail = << >>
        /\ StartWire("VarInt",
                     [codec |-> "VarInt", family |-> "wire", k |-> k, low |-> low,
                      stop |-> stop, tail |-> tail],
                     Run(k, 128 + low) \o stop \o tail)

VarIntEncode ==
    /\ w_pc = "value"
    /\ w_value.codec = "VarInt"
    /\ Encoded(<<"Ok", VarInt_encode(w_value.v)>>)

VarIntDecode ==
    /\ w_pc = "bytes"
    /\ w_value.codec = "VarInt"
    /\ Decoded(Outcome(VarInt_decode(w_buf)))

InitCodec ==
    /\ NbtIdle
    /\ ScoresIdle
    /\ BossIdle
    /\ \/ InitIdOr
       \/ InitNode
       \/ InitNodeWire
       \/ InitNodeTruncated
       \/ InitParser
       \/ InitParserWire
       \/ InitVarInt
       \/ InitVarIntWire

NextCodec ==
    \/ IdOrEncode
    \/ IdOrDecode
    \/ NodeEncode
    \/ NodeDecode
    \/ NodeEncodeAgain
    \/ ParserEncode
    \/ ParserDecode
    \/ VarIntEncode
    \/ VarIntDecode

\* the packet codecs
SpecCodec == InitCodec /\ [][NextCodec]_vars

(***************************************************************************)
(* The scores of an objective (valence_scoreboard, components.rs).  A map  *)
(* of keys to scores is a function from the keys it has to their scores.   *)
(* In every tick in which the scores changed, the scoreboard system calls  *)
(* OldObjectiveScores::diff, sends a packet for every key diff returned    *)
(* and copies the scores to the old scores.  A HashMap is iterated in an   *)
(* order of its own, the same for every iteration of an unchanged map.     *)
(***************************************************************************)
ScoreKeys == {"foo", "bar", "baz"}

ScoreValues == {0, 3}

\* the maps of keys to scores
ScoreMaps == UNION {[S -> ScoreValues] : S \in SUBSET ScoreKeys}

\* the orders in which a HashMap with the keys S may be iterated
IterationOrders(S) ==
    {order \in [1..Cardinality(S) -> S] :
        \A i, j \in 1..Cardinality(S) : order[i] = order[j] => i = j}

\* HashMap::get
Get(map, key) == IF key \in DOMAIN map THEN Some(map[key]) ELSE None

\* ObjectiveScores::insert
ObjectiveScores_insert(map, key, value) ==
    [k \in (DOMAIN map) \cup {key} |-> IF k = key THEN value ELSE map[k]]

\* OldObjectiveScores::diff, the old scores being iterated in old_order and
\* the scores in new_order
diff(old, scores, old_order, new_order) ==
    LET differs(key) == Get(scores, key) # Some(old[key])
        is_new(key) == key \notin DOMAIN old
        is_removed(key) == key \notin DOMAIN scores
    IN  SelectSeq(old_order, differs)
        \o SelectSeq(new_order, is_new)
        \o SelectSeq(old_order, is_removed)

\* the packet the system sends for a key of the diff: the score the key has
\* now, or its removal
ScorePacket(scores, key) == <<key, Get(scores, key)>>

\* an objective is spawned with its scores; the tick of the join has passed
InitScores ==
    \E map \in ScoreMaps :
        /\ s_scores = map
        /\ s_old = map
        /\ s_diff = << >>
        /\ s_sent = << >>
        /\ s_pc = "run"

\* the application sets a score
SetScore ==
    /\ s_pc = "run"
    /\ \E key \in ScoreKeys, value \in ScoreValues :
        s_scores' = ObjectiveScores_insert(s_scores, key, value)
    /\ UNCHANGED <<s_old, s_diff, s_sent, s_pc, nbtVars, wireVars, bossVars>>

\* the application replaces the scores of the objective (with_map)
ReplaceScores ==
    /\ s_pc = "run"
    /\ s_scores' \in ScoreMaps
    /\ UNCHANGED <<s_old, s_diff, s_sent, s_pc, nbtVars, wireVars, bossVars>>

\* a tick, first half: the system diffs the old scores and the scores
DiffScores ==
    /\ s_pc = "run"
    /\ \E old_order \in IterationOrders(DOMAIN s_old),
          new_order \in IterationOrders(DOMAIN s_scores) :
        s_diff' = diff(s_old, s_scores, old_order, new_order)
    /\ s_pc' = "diffed"
    /\ UNCHANGED <<s_scores, s_old, s_sent, nbtVars, wireVars, bossVars>>

\* a tick, second half: a packet for every key of the diff, and the scores
\* become the old scores
SendScores ==
    /\ s_pc = "diffed"
    /\ s_sent' = [i \in 1..Len(s_diff) |-> ScorePacket(s_scores, s_diff[i])]
    /\ s_old' = s_scores
    /\ s_pc' = "run"
    /\ UNCHANGED <<s_scores, s_diff, nbtVars, wireVars, bossVars>>

InitScoreboard == NbtIdle /\ WireIdle /\ BossIdle /\ InitScores

NextScoreboard ==
    \/ SetScore
    \/ ReplaceScores
    \/ DiffScores
    \/ SendScores

\* the scores of an objective over the ticks
SpecScoreboard == InitScoreboard /\ [][NextScoreboard]_vars

(***************************************************************************)
(* The boss bars a client is shown (valence_boss_bar, lib.rs).  One client *)
(* and a fixed set of boss bar entities, each in an entity layer, with or  *)
(* without a Position.  Chunk positions lie on a line.  In a tick the      *)
(* application changes components of the client and marks bars Despawned;  *)
(* then the systems of the plugin run in PostUpdate, in an order the       *)
(* schedule does not fix; then the packets written to the layers reach the *)
(* client, the Old* components take the current values and the despawned   *)
(* entities are removed.  The update_boss_bar systems write no Add and no  *)
(* Remove and are left out.                                                *)
(***************************************************************************)
EntityLayers == {"a", "b"}

ChunkPositions == {0, 1}

ViewDistances == {0, 1}

\* the boss bars: their EntityLayerId and their Option<Position>
BossBars ==
    << [layer |-> "a", position |-> None],
       [layer |-> "a", position |-> Some(0)],
       [layer |-> "b", position |-> Some(1)] >>

\* the query iterates the boss bars in this order
BarOrder == <<1, 2, 3>>

\* ChunkView::new(pos, dist).contains(at)
ChunkView_contains(pos, dist, at) == at - pos <= dist /\ pos - at <= dist

\* the bar has no Position, or the view of a client at pos holds it
InViewOrGlobal(bar, pos, dist) ==
    \/ BossBars[bar].position = None
    \/ ChunkView_contains(pos, dist, BossBars[bar].position[2])

Add(bar) == <<"Add", bar>>

Remove(bar) == <<"Remove", bar>>

\* the packets for the bars of `order` that `test` selects
RECURSIVE PacketsFor(_, _, _, _)
PacketsFor(order, adds, removes, i) ==
    IF i > Len(order) THEN << >>
    ELSE (IF order[i] \in adds THEN <<Add(order[i])>>
          ELSE IF order[i] \in removes THEN <<Remove(order[i])>>
          ELSE << >>)
         \o PacketsFor(order, adds, removes, i + 1)

\* update_boss_bar_layer_view for a client whose VisibleEntityLayers changed:
\* an Add for the bars of the added layers, then a Remove for the bars of the
\* removed layers, both only for bars without a Position or in the view
update_boss_bar_layer_view(client, old, bars) ==
    LET added == {bar \in bars :
                    /\ BossBars[bar].layer \in client.layers \ old.layers
                    /\ InViewOrGlobal(bar, client.pos, client.dist)}
        removed == {bar \in bars :
                    /\ BossBars[bar].layer \in old.layers \ client.layers
                    /\ InViewOrGlobal(bar, client.pos, client.dist)}
    IN  PacketsFor(BarOrder, added, {}, 1) \o PacketsFor(BarOrder, {}, removed, 1)

\* update_boss_bar_chunk_view for a client whose Position changed: for the
\* bars with a Position in the visible layers, an Add for a bar that entered
\* the view and a Remove for a bar that left it
update_boss_bar_chunk_view(client, old, bars) ==
    LET positioned == {bar \in bars :
                        /\ BossBars[bar].position # None
                        /\ BossBars[bar].layer \in client.layers}
        now(bar) == ChunkView_contains(client.pos, client.dist, BossBars[bar].position[2])
        before(bar) == ChunkView_contains(old.pos, old.dist, BossBars[bar].position[2])
    IN  PacketsFor(BarOrder,
                   {bar \in positioned : now(bar) /\ ~before(bar)},
                   {bar \in positioned : ~now(bar) /\ before(bar)},
                   1)

\* boss_bar_despawn: a Remove for every bar marked Despawned, written to the
\* layer of the bar
boss_bar_despawn(despawned) == PacketsFor(BarOrder, {}, despawned, 1)

\* the packets written to the layers that the client is sent: those of its
\* visible layers, and for a bar with a Position those in its view
Delivered(packets, client) ==
    LET reaches(p) ==
            /\ BossBars[p[2]].layer \in client.layers
            /\ InViewOrGlobal(p[2], client.pos, client.dist)
    IN  SelectSeq(packets, reaches)

\* the bars the client shows after the packets, having shown `shown` before
RECURSIVE Shows(_, _, _)
Shows(shown, packets, i) ==
    IF i > Len(packets) THEN shown
    ELSE Shows(IF packets[i][1] = "Add" THEN shown \cup {packets[i][2]}
               ELSE shown \ {packets[i][2]},
               packets, i + 1)

Systems == {"update_boss_bar_layer_view", "update_boss_bar_chunk_view", "boss_bar_despawn"}

\* a client has joined: no layer is visible to it yet
InitBossBars ==
    /\ \E pos \in ChunkPositions, dist \in ViewDistances :
        /\ b_client = [layers |-> {}, pos |-> pos, dist |-> dist]
        /\ b_old = [layers |-> {}, pos |-> pos, dist |-> dist]
    /\ b_changed = {}
    /\ b_bars = DOMAIN BossBars
    /\ b_despawned = {}
    /\ b_sent = << >>
    /\ b_layer_sent = << >>
    /\ b_ran = {}
    /\ b_shown = {}
    /\ b_pc = "update"

\* the application changes the VisibleEntityLayers of the client
SetVisibleLayers ==
    /\ b_pc = "update"
    /\ \E layers \in SUBSET EntityLayers : b_client' = [b_client EXCEPT !.layers = layers]
    /\ b_changed' = b_changed \cup {"VisibleEntityLayers"}
    /\ UNCHANGED <<b_old, b_bars, b_despawned, b_sent, b_layer_sent, b_ran, b_shown, b_pc,
                   nbtVars, wireVars, scoreVars>>

\* the client moves
SetPosition ==
    /\ b_pc = "update"
    /\ \E pos \in ChunkPositions : b_client' = [b_client EXCEPT !.pos = pos]
    /\ b_changed' = b_changed \cup {"Position"}
    /\ UNCHANGED <<b_old, b_bars, b_despawned, b_sent, b_layer_sent, b_ran, b_shown, b_pc,
                   nbtVars, wireVars, scoreVars>>

\* the view distance of the client changes (no system of the plugin asks
\* whether it did)
SetViewDistance ==
    /\ b_pc = "update"
    /\ \E dist \in ViewDistances : b_client' = [b_client EXCEPT !.dist = dist]
    /\ UNCHANGED <<b_changed, b_old, b_bars, b_despawned, b_sent, b_layer_sent, b_ran, b_shown, b_pc,
                   nbtVars, wireVars, scoreVars>>

\* the application marks a boss bar Despawned
Despawn ==
    /\ b_pc = "update"
    /\ \E bar \in b_bars \ b_despawned : b_despawned' = b_despawned \cup {bar}
    /\ UNCHANGED <<b_client, b_old, b_changed, b_bars, b_sent, b_layer_sent, b_ran, b_shown,
                   b_pc, nbtVars, wireVars, scoreVars>>

\* a system of the plugin starts: it has not run in this tick
Runs(system) ==
    /\ b_pc \in {"update", "post"}
    /\ system \notin b_ran
    /\ b_ran' = b_ran \cup {system}
    /\ b_pc' = "post"

UpdateBossBarLayerView ==
    /\ Runs("update_boss_bar_layer_view")
    /\ b_sent' = b_sent \o (IF "VisibleEntityLayers" \in b_changed
                            THEN update_boss_bar_layer_view(b_client, b_old, b_bars)
                            ELSE << >>)
    /\ UNCHANGED <<b_client, b_old, b_changed, b_bars, b_despawned, b_layer_sent, b_shown,
                   nbtVars, wireVars, scoreVars>>

UpdateBossBarChunkView ==
    /\ Runs("update_boss_bar_chunk_view")
    /\ b_sent' = b_sent \o (IF "Position" \in b_changed
                            THEN update_boss_bar_chunk_view(b_client, b_old, b_bars)
                            ELSE << >>)
    /\ UNCHANGED <<b_client, b_old, b_changed, b_bars, b_despawned, b_layer_sent, b_shown,
                   nbtVars, wireVars, scoreVars>>

BossBarDespawn ==
    /\ Runs("boss_bar_despawn")
    /\ b_layer_sent' = b_layer_sent \o boss_bar_despawn(b_despawned)
    /\ UNCHANGED <<b_client, b_old, b_changed, b_bars, b_despawned, b_sent, b_shown,
                   nbtVars, wireVars, scoreVars>>

\* the rest of the tick: the client is sent the packets written to it and
\* then those written to the layers, the Old* components are updated and the
\* despawned entities removed
EndTick ==
    /\ b_pc = "post"
    /\ b_ran = Systems
    /\ b_shown' = Shows(b_shown, b_sent \o Delivered(b_layer_sent, b_client), 1)
    /\ b_old' = b_client
    /\ b_changed' = {}
    /\ b_bars' = b_bars \ b_despawned
    /\ b_despawned' = {}
    /\ b_sent' = << >>
    /\ b_layer_sent' = << >>
    /\ b_ran' = {}
    /\ b_pc' = "update"
    /\ UNCHANGED <<b_client, nbtVars, wireVars, scoreVars>>

InitBoss == NbtIdle /\ WireIdle /\ ScoresIdle /\ InitBossBars

NextBoss ==
    \/ SetVisibleLayers
    \/ SetPosition
    \/ SetViewDistance
    \/ Despawn
    \/ UpdateBossBarLayerView
    \/ UpdateBossBarChunkView
    \/ BossBarDespawn
    \/ EndTick

\* the boss bars of a client over the ticks
SpecBoss == InitBoss /\ [][NextBoss]_vars

(***************************************************************************)
(* Properties of from_binary.                                              *)
(***************************************************************************)
\* an Err is on its way out of from_binary, or has been returned
Failed == pc \in {"unwind", "err"}

\* the cursor is a suffix of the input
InBounds == Len(slice) <= Len(input) /\ slice = Drop(input, Len(input) - Len(slice))

\* from_binary has just called read_compound for the root
JustEntered == pc = "run" /\ Len(stack) = 1 /\ Top.acc = << >> /\ Top.key = << >>

\* how deep the containers of a chain document nest under the root: its n
\* levels, and the element kind of the innermost List when that is List or
\* Compound
Nesting(d) ==
    d.n + (IF LevelKind(d.pattern, d.n) = "L" /\ d.inner \in {"List", "Compound"}
           THEN 1 ELSE 0)

\* C1: a document whose containers nest MAX_DEPTH deep under the root decodes,
\* and one that nests MAX_DEPTH + 1 deep or deeper fails with MaxDepthExceeded,
\* whatever the mix of Compound-in-Compound, List-in-Compound, List-of-List
\* and List-of-Compound, where a List whose element tag is List or Compound
\* counts the level of its elements even when it has none; the depth counter
\* never passes MAX_DEPTH and is 0 again when from_binary returns Ok.
C1_DepthLimit ==
    doc.family = "chain" =>
        /\ depth <= MAX_DEPTH
        /\ Nesting(doc) <= MAX_DEPTH => ~Failed
        /\ Nesting(doc) > MAX_DEPTH => pc # "done" /\ (Failed => err = "MaxDepthExceeded")
        /\ pc = "done" => depth = 0 /\ slice = << >>

\* a chain that nests exactly MAX_DEPTH deep has been decoded
C1_AtLimit == doc.family = "chain" /\ pc = "done" /\ Nesting(doc) = MAX_DEPTH

\* C1 as the specification has it: the depth is the number of containers
\* that are nested under the root, so an empty List is one level whatever
\* its element tag
C1_ContainersNested ==
    doc.family = "chain" =>
        /\ doc.n <= MAX_DEPTH => ~Failed
        /\ doc.n > MAX_DEPTH => pc # "done" /\ (Failed => err = "MaxDepthExceeded")

\* the length field of e read as a signed integer of its width
SignedLen(e) == IF e.field = "String" THEN I16(e.raw) ELSE I32(e.raw)

\* C2: a negative length of a ByteArray, an IntArray, a LongArray or a List
\* whose element tag is not End fails with LengthError before an element is
\* read; a negative length of a List with element tag End fails with
\* NonZeroEndList; the length of a String is unsigned, so one whose top bit is
\* set is 32768 or more and fails with LengthError exactly when it exceeds
\* the input that is left; and the cursor never leaves the input.
C2_NegativeLength ==
    /\ InBounds
    /\ \A i \in 1..Len(last) :
        LET e == last[i]
        IN  SignedLen(e) < 0 =>
                CASE e.field = "String" ->
                        /\ e.len = U16(e.raw)
                        /\ e.outcome = "LengthError" <=> e.len > e.avail
                        /\ e.outcome = "LengthError" => Failed /\ err = "LengthError"
                  [] e.field = "List" /\ e.elem = "End" ->
                        e.outcome = "NonZeroEndList" /\ Failed /\ err = "NonZeroEndList"
                  [] OTHER ->
                        /\ e.outcome = "LengthError" /\ e.nread = 0
                        /\ Failed /\ err = "LengthError"
                        /\ Len(slice) = e.avail

\* from_binary has returned LengthError for a negative 32-bit length
C2_NegativeRejected ==
    /\ pc = "err" /\ err = "LengthError"
    /\ \E i \in 1..Len(last) : last[i].field # "String" /\ SignedLen(last[i]) < 0

\* C2 as the specification has it: every length field that is negative as a
\* signed integer fails with LengthError
C2_AlwaysLengthError ==
    \A i \in 1..Len(last) : SignedLen(last[i]) < 0 => Failed /\ err = "LengthError"

\* the least number of bytes an element with this tag takes when encoded
EncodedSize(tag) ==
    CASE tag = "Byte" -> 1
      [] tag = "Short" -> 2
      [] tag = "Int" -> 4
      [] tag = "Long" -> 8
      [] tag = "Float" -> 4
      [] tag = "Double" -> 8
      [] tag = "ByteArray" -> 4
      [] tag = "String" -> 2
      [] tag = "List" -> 5
      [] tag = "Compound" -> 1
      [] tag = "IntArray" -> 4
      [] tag = "LongArray" -> 4

\* the elements e declares do not fit into the input left after its length
Exceeds(e) == e.elem # "End" /\ e.len >= 0 /\ e.len > e.avail \div EncodedSize(e.elem)

\* C3: a String, a ByteArray, an IntArray, a LongArray or a List of any
\* element kind whose length declares more than the input left after the
\* length field holds fails with LengthError, before an element is read.
C3_AnyElementKind ==
    \A i \in 1..Len(last) : Exceeds(last[i]) => Failed /\ err = "LengthError"

\* the document is a root compound that holds one List and nothing else
ListProbe ==
    doc.family = "probe" /\ doc.field = "List" /\ ~doc.nested /\ doc.fill[1] = 0

\* the value a probe document holds under its key
Probed == root[<< >>]

\* C4: a List with element tag End and length 0 decodes to List::End, one
\* with another length fails with NonZeroEndList, and a List with another
\* element tag never decodes to List::End, not even an empty one.
C4_EndList ==
    /\ \A i \in 1..Len(last) :
        LET e == last[i]
        IN  e.field = "List" /\ e.elem = "End" =>
                IF I32(e.raw) = 0 THEN e.outcome = "ok" /\ ~Failed
                ELSE e.outcome = "NonZeroEndList" /\ Failed /\ err = "NonZeroEndList"
    /\ \A i \in 1..Len(stack) : stack[i].fn = "read_list" => stack[i].tag # "End"
    /\ ListProbe /\ pc = "done" =>
        /\ Probed[1] = "List"
        /\ IF doc.elem = "End" THEN Probed[2] = <<"End">> /\ I32(doc.raw) = 0
           ELSE Probed[2][1] = doc.elem

\* a List with element tag End and length 0 has been decoded to List::End
C4_EndDecoded ==
    /\ ListProbe /\ doc.elem = "End"
    /\ pc = "done"
    /\ Probed = <<"List", <<"End">>>>

\* the peek of from_binary finds a root name in these bytes
PeekParses(bytes) == read_string(Drop(bytes, 1)).ok

\* C5: the encoding of a compound with a root name decodes to the compound
\* and Some(name); its encoding without a root name decodes to the compound
\* and None whenever the bytes after the root tag do not parse as a
\* length-prefixed string, as is so for every encoding shorter than 259
\* bytes; and when the peek fails the cursor is just past the root tag.
C5_RootShapes ==
    /\ doc.family = "encoded" /\ (doc.name[1] = "Some" \/ ~PeekParses(input)) =>
        /\ ~Failed
        /\ pc = "done" => root = doc.compound /\ root_name = doc.name /\ slice = << >>
    /\ doc.family = "encoded" /\ doc.name[1] = "None" /\ Len(input) < 259 =>
        ~PeekParses(input)
    /\ JustEntered /\ ~PeekParses(input) =>
        root_name = <<"None">> /\ slice = Drop(input, 1) /\ last = NoEvents
    /\ JustEntered /\ PeekParses(input) =>
        /\ root_name[1] = "Some" /\ Len(last) = 1
        /\ Len(slice) = Len(input) - 3 - last[1].len

\* the encoding of a compound without a root name has been decoded
C5_UnnamedDecoded ==
    /\ doc.family = "encoded" /\ doc.name = <<"None">> /\ doc.compound # EmptyCompound
    /\ pc = "done" /\ root = doc.compound /\ root_name = <<"None">>

\* C5 as the specification has it: both encodings of every compound decode
C5_BothShapesAlways ==
    doc.family = "encoded" =>
        /\ ~Failed
        /\ pc = "done" => root = doc.compound /\ root_name = doc.name

ValidTags == 0..12

\* C6: when the first byte is a valid tag other than Compound, from_binary
\* returns RootTagMismatch at once, with the cursor just past that byte: no
\* byte of a name or of content has been read.
C6_RootTagMismatch ==
    /\ err = "RootTagMismatch" =>
        /\ pc = "err" /\ slice = Drop(input, 1)
        /\ last = NoEvents /\ stack = << >> /\ root_name = <<"None">> /\ depth = 0
    /\ doc.family = "root" /\ doc.first \in ValidTags \ {TagCode("Compound")} /\ pc # "start" =>
        err = "RootTagMismatch"
    /\ doc.family = "root" /\ doc.first = TagCode("Compound") => err # "RootTagMismatch"

\* from_binary has refused a root tag that is valid and not Compound
C6_Refused ==
    /\ doc.family = "root" /\ doc.first = TagCode("String") /\ Len(input) > 3
    /\ pc = "err" /\ err = "RootTagMismatch"

(***************************************************************************)
(* Properties of the packet codecs.                                        *)
(***************************************************************************)
\* an IdOr value has been encoded
IdOrEncoded == w_value.codec = "IdOr" /\ w_value.family = "value" /\ w_pc = "bytes"

\* C7: IdOr::encode writes VarInt(id + 1) for Id(id), and VarInt(0) and then
\* the encoding of the value for Inline(value): the VarInts that
\* IdOr::decode reads.
C7_EncodesVarInt ==
    IdOrEncoded =>
        CASE w_value.v[1] = "Id" /\ w_value.v[2] < I32_MAX ->
                w_buf = VarInt_encode(w_value.v[2] + 1) \o w_value.tail
          [] w_value.v[1] = "Inline" ->
                w_buf = VarInt_encode(0) \o T_encode(w_value.v[2]) \o w_value.tail
          [] OTHER -> TRUE

\* IdOr::decode has returned, or panicked, on a buffer that starts with a VarInt
IdOrRead == w_value.codec = "IdOr" /\ w_value.family = "wire" /\ w_pc \in {"decoded", "panic"}

\* C8: IdOr::decode reads one VarInt; for 0 it decodes a T next and returns
\* Inline of it, or the error of T; for any other N it returns Id(N - 1) and
\* leaves what follows the VarInt.
C8_DecodeContract ==
    IdOrRead =>
        IF w_value.n = 0
        THEN LET value == T_decode(w_value.tail)
             IN  IF value.ok
                 THEN w_out = <<"Ok", <<"Inline", value.v>>>> /\ w_rest = value.rest
                 ELSE w_out = <<"Err", value.err>>
        ELSE /\ w_out[1] = "Ok"
             /\ w_out[2][1] = "Id"
             /\ w_out[2][2] < w_value.n
             /\ w_value.n - w_out[2][2] = 1
             /\ w_rest = w_value.tail

\* C9: an IdOr that holds a registry id or an inline value is encoded without
\* overflow and decodes to itself, the decoder taking the bytes the encoder
\* wrote and no more.
C9_RoundTrip ==
    w_value.codec = "IdOr" /\ w_value.family = "value" /\ w_value.v[1] # "Phantom" =>
        /\ w_pc # "panic"
        /\ w_pc = "decoded" => w_out = <<"Ok", w_value.v>> /\ w_rest = w_value.tail

C11_FlagByte ==
    w_value.codec = "Node" /\ w_value.family = "value" /\ w_pc = "bytes" =>
        LET n == w_value.v
            flags == w_buf[1]
        IN  /\ flags % 4 = (CASE n.data[1] = "Root" -> 0
                              [] n.data[1] = "Literal" -> 1
                              [] n.data[1] = "Argument" -> 2)
            /\ Bit(flags, 4) <=> n.executable
            /\ Bit(flags, 8) <=> n.redirect_node # None
            /\ Bit(flags, 16) <=> (n.data[1] = "Argument" /\ n.data[4] # None)
            /\ flags < 32
            /\ n.data[1] \in {"Root", "Literal"} => ~Bit(flags, 16)

\* an executable Literal with a redirect has been encoded with the flags 0x0D
C11_LiteralFlags ==
    /\ w_value.codec = "Node" /\ w_value.family = "value" /\ w_pc = "bytes"
    /\ w_value.v.data[1] = "Literal" /\ w_value.v.executable
    /\ w_value.v.redirect_node # None
    /\ w_buf[1] = 13

\* the suggestion of an encoded node is read from r, and the tail is left
ReadsSuggestion(n, r) ==
    IF n.data[4] = None THEN r = w_value.tail
    ELSE LET ident == Ident_decode(r)
         IN  ident.ok /\ SuggestionOf(ident.v) = n.data[4][2] /\ ident.rest = w_value.tail

\* the parser of an encoded node is read from r, then the suggestion
ReadsParser(n, r) ==
    LET parser == Parser_decode(r)
    IN  parser.ok /\ parser.v = n.data[3] /\ ReadsSuggestion(n, parser.rest)

\* the payload of the kind of an encoded node is read from r
ReadsData(n, r) ==
    IF n.data[1] = "Root" THEN r = w_value.tail
    ELSE LET name == String_decode(r)
         IN  /\ name.ok /\ name.v = n.data[2]
             /\ IF n.data[1] = "Literal" THEN name.rest = w_value.tail
                ELSE ReadsParser(n, name.rest)

\* the redirect of an encoded node, if it has one, is read from r, then the
\* payload
ReadsRedirect(n, r) ==
    IF n.redirect_node = None THEN ReadsData(n, r)
    ELSE LET redirect_node == VarInt_decode(r)
         IN  /\ redirect_node.ok /\ redirect_node.v = n.redirect_node[2]
             /\ ReadsData(n, redirect_node.rest)

\* the children of an encoded node are read from r, then the redirect
ReadsChildren(n, r) ==
    LET children == Vec_decode(r)
    IN  children.ok /\ children.v = n.children /\ ReadsRedirect(n, children.rest)

\* what Node::decode is to return for a node on the wire whose kind is known
\* and whose identifier, if one is announced, is in the table
WireNode(w) ==
    [children |-> w.children,
     data |-> CASE w.flags % 4 = 0 -> <<"Root">>
                [] w.flags % 4 = 1 -> <<"Literal", w.name>>
                [] w.flags % 4 = 2 ->
                    <<"Argument", w.name, w.parser,
                      IF Bit(w.flags, 16) THEN Some(SuggestionOf(Ident_parse(w.ident).v))
                      ELSE None>>,
     executable |-> Bit(w.flags, 4),
     redirect_node |-> IF Bit(w.flags, 8) THEN Some(w.redirect) ELSE None]

\* the identifier of a node on the wire is read and is not in the table, or
\* is no identifier
BadIdent(w) ==
    /\ w.flags % 4 = 2 /\ Bit(w.flags, 16)
    /\ ~Ident_parse(w.ident).ok \/ SuggestionOf(Ident_parse(w.ident).v) = "unknown"

\* C12: Node::encode writes, and Node::decode reads, the flags, then the
\* children with their VarInt length, then the redirect iff bit 3 is set,
\* then the payload of the kind: for a Literal the name, for an Argument the
\* name, the Parser and, iff bit 4 is set, the identifier of the suggestion;
\* a field whose bit is clear is neither written nor read.
C12_FieldOrder ==
    /\ w_value.codec = "Node" /\ w_value.family = "value" /\ w_pc = "bytes" =>
        /\ w_buf[1] = encode_flags(w_value.v)
        /\ ReadsChildren(w_value.v, Drop(w_buf, 1))
    /\ w_value.codec = "Node" /\ w_value.family = "wire" /\ w_pc = "decoded"
       /\ w_value.flags % 4 # 3 /\ ~BadIdent(w_value) =>
        /\ w_out = <<"Ok", WireNode(w_value)>>
        /\ w_rest = w_value.tail

\* a Literal on the wire with bit 4 set and a redirect has been decoded: no
\* suggestion is read
C12_LiteralRead ==
    /\ w_value.codec = "Node" /\ w_value.family = "wire" /\ w_pc = "decoded"
    /\ w_value.flags = 25 /\ w_value.tail # << >>
    /\ w_out[1] = "Ok" /\ w_out[2].data = <<"Literal", w_value.name>>
    /\ w_out[2].redirect_node = Some(300)
    /\ w_rest = w_value.tail

\* C13: when the kind bits of the flags are 0b11 and the children and the
\* redirect before the payload decode, Node::decode fails with the error of
\* an invalid node type; when they do not decode it fails with their error;
\* no Node of another kind than Root, Literal and Argument is ever returned.
C13_UnknownNodeType ==
    /\ w_value.codec = "Node" /\ w_value.family = "wire" /\ w_pc = "decoded"
       /\ w_value.flags % 4 = 3 =>
        w_out = <<"Err", "InvalidNodeType">>
    /\ w_value.codec = "Node" /\ w_value.family = "truncated" /\ w_pc = "decoded" =>
        w_out = <<"Err", "Io">>
    /\ w_value.codec = "Node" /\ w_pc = "decoded" /\ w_out[1] = "Ok" =>
        /\ w_out[2].data[1] \in {"Root", "Literal", "Argument"}
        /\ w_buf[1] % 4 = node_type(w_out[2].data)

\* Node::decode has refused flags with the kind bits 0b11, all other bits set
C13_Kind3Refused ==
    /\ w_value.codec = "Node" /\ w_value.family = "wire" /\ w_pc = "decoded"
    /\ w_value.flags = 255 /\ w_value.children # << >>
    /\ w_out = <<"Err", "InvalidNodeType">>

\* C14: Parser::decode fails with the error of an unknown parser for every
\* first byte 48..255, having read that byte only, and for every first byte
\* 0..47 it selects the variant of that discriminant: the decoded Parser is
\* that variant, and a failure is the failure of a field of the variant.
C14_UnknownParserId ==
    /\ w_value.codec = "Parser" /\ w_value.family = "wire" /\ w_pc = "decoded" =>
        IF w_value.id >= 48
        THEN w_out = <<"Err", "UnknownParser">> /\ w_rest = w_value.payload
        ELSE /\ w_out # <<"Err", "UnknownParser">>
             /\ w_out[1] = "Ok" => ParserId(w_out[2][1]) = w_value.id
             /\ w_out[1] = "Err" =>
                    ParserOfId(w_value.id)
                        \in MinMaxParsers \cup RegistryParsers
                            \cup {"String", "Entity", "ScoreHolder"}
    /\ w_value.codec = "Parser" /\ w_value.family = "value" /\ w_pc = "decoded" =>
        w_out[1] = "Ok" /\ w_out[2][1] = w_value.v[1]

\* Parser::decode has refused the discriminant 48 with bytes after it
C14_Refused48 ==
    /\ w_value.codec = "Parser" /\ w_value.family = "wire" /\ w_pc = "decoded"
    /\ w_value.id = 48 /\ w_value.payload # << >>
    /\ w_out = <<"Err", "UnknownParser">>

\* the identifiers of the suggestions and the variants they stand for
SuggestionTable ==
    {<<Minecraft \o AskServer_name, "AskServer">>,
     <<Minecraft \o AllRecipes_name, "AllRecipes">>,
     <<Minecraft \o AvailableSounds_name, "AvailableSounds">>,
     <<Minecraft \o AvailableBiomes_name, "AvailableBiomes">>,
     <<Minecraft \o SummonableEntities_name, "SummonableEntities">>}

\* an Argument with bit 4 set has been read off the wire
SuggestionRead ==
    /\ w_value.codec = "Node" /\ w_value.family = "wire" /\ w_pc = "decoded"
    /\ w_value.flags % 4 = 2 /\ Bit(w_value.flags, 16)

\* C15: for an Argument with bit 4 set Node::decode reads an identifier and
\* returns the suggestion that a table of five identifiers, minecraft:
\* ask_server, all_recipes, available_sounds, available_biomes and
\* summonable_entities, has for it (a name without a namespace being the
\* identifier in the namespace minecraft); for every other identifier it
\* fails with the error of an unknown suggestion, and for a string that is
\* no identifier with the error of the identifier.
C15_SuggestionTable ==
    /\ Cardinality(SuggestionTable) = 5
    /\ {row[2] : row \in SuggestionTable} = Suggestions
    /\ SuggestionRead =>
        LET ident == Ident_parse(w_value.ident)
            rows == {row \in SuggestionTable : ident.ok /\ row[1] = ident.v}
        IN  IF ~ident.ok THEN w_out = <<"Err", "InvalidIdent">>
            ELSE IF rows = {} THEN w_out = <<"Err", "UnknownSuggestion">>
            ELSE /\ w_out[1] = "Ok"
                 /\ \A row \in rows : w_out[2].data[4] = Some(row[2])
                 /\ w_rest = w_value.tail

\* minecraft:summonable_entities has been read as SummonableEntities
C15_TableHit ==
    /\ SuggestionRead
    /\ w_value.ident = Minecraft \o SummonableEntities_name
    /\ w_out[1] = "Ok" /\ w_out[2].data[4] = Some("SummonableEntities")

\* the last n elements of s
Suffix(s, n) == Drop(s, Len(s) - n)

\* C16: for an Argument with a suggestion Node::encode writes, as the last
\* field, the identifier the table of Node::decode has for that suggestion,
\* minecraft:ask_server and so on, byte for byte, as a string.
C16_WritesTableIdentifier ==
    w_value.codec = "Node" /\ w_value.family = "value" /\ w_pc = "bytes"
    /\ has_suggestion(w_value.v.data) =>
        \A row \in SuggestionTable :
            row[2] = w_value.v.data[4][2] =>
                LET field == String_encode(row[1]) \o w_value.tail
                IN  Len(field) <= Len(w_buf) /\ Suffix(w_buf, Len(field)) = field

\* a Parser has been encoded, or encoded and decoded
ParserRun(at) == w_value.codec = "Parser" /\ w_value.family = "value" /\ w_pc = at

\* a minimum or a maximum of the Float or Double p is a NaN
HasNaN(p) ==
    /\ p[1] \in {"Float", "Double"}
    /\ \E i \in {2, 3} :
        /\ p[i] # None
        /\ IF p[1] = "Float" THEN f32_is_nan(p[i][2]) ELSE f64_is_nan(p[i][2])

\* C17: Parser::encode writes first a discriminant 0..47 that Parser::decode
\* reads as the same variant, distinct variants have distinct discriminants,
\* a variant without fields is written as that one byte, Entity has after it
\* one byte with bit 0 single and bit 1 only_players and ScoreHolder one
\* bool byte, and Parser::decode of what Parser::encode wrote returns the
\* same variant with the same fields bit for bit; it is == to the encoded
\* Parser unless a minimum or maximum of a Float or Double is a NaN.
C17_ParserRoundTrip ==
    /\ ParserRun("bytes") =>
        LET p == w_value.v
        IN  /\ \A id \in 0..47 : ParserId(ParserOfId(id)) = id
            /\ Cardinality({ParserOfId(id) : id \in 0..47}) = 48
            /\ w_buf[1] \in 0..47 /\ ParserOfId(w_buf[1]) = p[1]
            /\ Len(p) = 1 => w_buf = <<w_buf[1]>> \o w_value.tail
            /\ p[1] = "Entity" =>
                    w_buf = <<6, (IF p[2] THEN 1 ELSE 0) + (IF p[3] THEN 2 ELSE 0)>>
                            \o w_value.tail
            /\ p[1] = "ScoreHolder" =>
                    w_buf = <<29, IF p[2] THEN 1 ELSE 0>> \o w_value.tail
    /\ ParserRun("decoded") =>
        /\ w_out = <<"Ok", w_value.v>>
        /\ w_rest = w_value.tail
        /\ Parser_eq(w_out[2], w_value.v) <=> ~HasNaN(w_value.v)

\* Entity { single: true, only_players: false } has been encoded as 06 01 and
\* decoded
C17_EntityDecoded ==
    /\ ParserRun("decoded")
    /\ w_value.v = <<"Entity", TRUE, FALSE>>
    /\ w_buf[2] = 1
    /\ w_out = <<"Ok", <<"Entity", TRUE, FALSE>>>>

\* C17 as the specification has it: Parser::decode of what Parser::encode
\* wrote is == to the encoded Parser, for every Parser
C17_AlwaysEqual ==
    ParserRun("decoded") => w_out[1] = "Ok" /\ Parser_eq(w_out[2], w_value.v)

\* the number that `width` bytes at the offset `from` of s are
NumberAt(width, s, from) == Fixed_decode(width, Drop(s, from)).v

\* C18: for Float, Double, Integer and Long the byte after the discriminant
\* has bit 0 set iff there is a minimum and bit 1 iff there is a maximum; the
\* minimum, if any, follows it and the maximum, if any, comes last; on
\* decoding a value is read exactly when its bit is set, the minimum first;
\* and all four combinations of minimum and maximum round-trip.
C18_MinMaxFlags ==
    /\ ParserRun("bytes") /\ w_value.v[1] \in MinMaxParsers =>
        LET p == w_value.v
            width == MinMaxWidth(p[1])
            has_min == IF p[2] = None THEN 0 ELSE 1
            has_max == IF p[3] = None THEN 0 ELSE 1
        IN  /\ w_buf[2] = has_min + 2 * has_max
            /\ Len(w_buf) = 2 + (has_min + has_max) * width + Len(w_value.tail)
            /\ has_min = 1 => NumberAt(width, w_buf, 2) = p[2][2]
            /\ has_max = 1 => NumberAt(width, w_buf, 2 + has_min * width) = p[3][2]
    /\ ParserRun("decoded") /\ w_value.v[1] \in MinMaxParsers =>
        w_out = <<"Ok", w_value.v>> /\ w_rest = w_value.tail
    /\ w_value.codec = "Parser" /\ w_value.family = "wire" /\ w_pc = "decoded"
       /\ w_value.id \in 1..4 /\ w_value.payload # << >> =>
        LET width == MinMaxWidth(ParserOfId(w_value.id))
            flags == w_value.payload[1]
            has_min == IF Bit(flags, 1) THEN 1 ELSE 0
            has_max == IF Bit(flags, 2) THEN 1 ELSE 0
            read == 1 + (has_min + has_max) * width
        IN  IF Len(w_value.payload) < read THEN w_out = <<"Err", "Io">>
            ELSE /\ w_out[1] = "Ok"
                 /\ w_out[2][2] = IF has_min = 1
                                  THEN Some(NumberAt(width, w_value.payload, 1)) ELSE None
                 /\ w_out[2][3] = IF has_max = 1
                                  THEN Some(NumberAt(width, w_value.payload, 1 + has_min * width))
                                  ELSE None
                 /\ w_rest = Drop(w_value.payload, read)

\* a Double with a minimum and a maximum has been encoded and decoded
C18_BothDecoded ==
    /\ ParserRun("decoded")
    /\ w_value.v[1] = "Double" /\ w_value.v[2] # None /\ w_value.v[3] # None
    /\ w_value.v[2] # w_value.v[3]
    /\ w_buf[2] = 3
    /\ w_out = <<"Ok", w_value.v>>

(***************************************************************************)
(* Properties of read_compound.                                            *)
(***************************************************************************)
\* the i-th entry of a document with repeated keys
DupEntry(i) == DupEntries[doc.entries[i]]

\* C19: read_compound reads entries of a tag, a key and a value up to the
\* first Tag::End and no further; the compound has each key of the input
\* once, with the value of the last entry that has the key, and the bytes of
\* every entry, kept or replaced, are consumed.
C19_LastWriteWins ==
    doc.family = "dup" =>
        /\ ~Failed
        /\ pc = "done" =>
            /\ DOMAIN root = {DupEntry(i).key : i \in 1..Len(doc.entries)}
            /\ \A i \in 1..Len(doc.entries) :
                (\A j \in (i + 1)..Len(doc.entries) : DupEntry(j).key # DupEntry(i).key)
                    => root[DupEntry(i).key] = DupEntry(i).value
            /\ root_name = Some(<< >>)
            /\ slice = doc.tail
            /\ depth = 0

\* a compound whose first and third entry have the same key has been decoded
C19_Replaced ==
    /\ doc.family = "dup" /\ pc = "done"
    /\ doc.entries = <<1, 4, 3>>
    /\ root = [k \in {<<97>>, <<98>>} |-> IF k = <<97>> THEN <<"Short", 258>> ELSE <<"Byte", 1>>]

(***************************************************************************)
(* Properties of the scoreboard.                                           *)
(***************************************************************************)
\* how often key occurs in the sequence keys
Occurrences(keys, key) == Cardinality({i \in 1..Len(keys) : keys[i] = key})

\* the score of key differs between the old scores and the scores: it has
\* changed, or the key was added or removed
ScoreDiffers(key) == Get(s_old, key) # Get(s_scores, key)

\* C20: OldObjectiveScores::diff returns every key whose score differs
\* between the old scores and the scores, changed, added or removed, once,
\* and no key whose score is the same.
C20_DiffExactlyOnce ==
    s_pc = "diffed" =>
        \A key \in ScoreKeys :
            Occurrences(s_diff, key) = IF ScoreDiffers(key) THEN 1 ELSE 0

\* a VarInt has been encoded / decoded again
VarIntRun(at) == w_value.codec = "VarInt" /\ w_value.family = "value" /\ w_pc = at

\* the bytes VarInt::encode wrote
VarIntBytes == Take(w_buf, Len(w_buf) - Len(w_value.tail))

\* the number of 7-bit groups the i32 v needs when taken as a u32
GroupsNeeded(v) ==
    IF v < 0 THEN 5
    ELSE IF v < 128 THEN 1
    ELSE IF v < 16384 THEN 2
    ELSE IF v < 2097152 THEN 3
    ELSE IF v < 268435456 THEN 4
    ELSE 5

\* the low 28 bits that the first four bytes of b carry (bytes b lacks are 0)
Low28(b) ==
    LET g(i) == IF i <= Len(b) THEN b[i] % 128 ELSE 0
    IN  g(1) + g(2) * 128 + g(3) * 16384 + g(4) * 2097152

\* C21: VarInt::encode writes 1 to 5 bytes, 7 bits of the value in each, the
\* least significant first, every byte but the last with the continuation
\* bit, and no more bytes than the value needs (0, 127, 128, 2147483647 and -1
\* take 1, 1, 2, 5 and 5 bytes); VarInt::decode returns the value again and
\* leaves what follows.  A buffer with 5 or more continuation bytes in a row
\* is refused with VarIntTooLong, and a buffer that ends before the VarInt does
\* is refused without a byte read past its end.
C21_VarIntCodec ==
    /\ VarIntRun("bytes") \/ VarIntRun("decoded") =>
        LET b == VarIntBytes
            v == w_value.v
        IN  /\ Len(b) = GroupsNeeded(v)
            /\ \A i \in 1..Len(b) : (b[i] >= 128) = (i < Len(b))
            /\ Low28(b) = v % 268435456
            /\ (IF Len(b) = 5 THEN b[5] ELSE 0) = (v \div 268435456) % 16
            /\ v = 0 => Len(b) = 1
            /\ v = 127 => Len(b) = 1
            /\ v = 128 => Len(b) = 2
            /\ v = I32_MAX => Len(b) = 5
            /\ v = -1 => Len(b) = 5
    /\ VarIntRun("decoded") => w_out = <<"Ok", w_value.v>> /\ w_rest = w_value.tail
    /\ w_value.codec = "VarInt" /\ w_value.family = "wire" /\ w_pc = "decoded" =>
        /\ Len(w_rest) <= Len(w_buf)
        /\ w_rest = Drop(w_buf, Len(w_buf) - Len(w_rest))
        /\ Len(w_buf) - Len(w_rest) <= 5
        /\ w_value.k >= 5 => w_out = <<"Err", "VarIntTooLong">>
        /\ w_value.k < 5 /\ w_value.stop = << >> => w_out = <<"Err", "Io">>
        /\ w_value.k < 5 /\ w_value.stop # << >> =>
            /\ w_out[1] = "Ok"
            /\ w_rest = w_value.tail

\* -1 has been written as five bytes and decoded again
C21_MinusOneDecoded ==
    /\ VarIntRun("decoded")
    /\ w_value.v = -1
    /\ VarIntBytes = <<255, 255, 255, 255, 15>>
    /\ w_out = <<"Ok", -1>>

(***************************************************************************)
(* Properties of the recursion counter.                                    *)
(***************************************************************************)
\* the check_depth calls that are active: those around the active calls of
\* read_compound and read_list
ActiveGuards ==
    Cardinality({i \in 1..Len(stack) : stack[i].guards >= 1})
    + Cardinality({i \in 1..Len(stack) : stack[i].guards >= 2})

\* C23: the depth is the number of check_depth calls that are active, while
\* from_binary reads and while an Err passes through the active calls; it is
\* never above MAX_DEPTH; and it is 0 again when from_binary returns, with Ok
\* (the debug assertion holds) or with Err.
C23_DepthBalanced ==
    /\ depth >= 0
    /\ depth <= MAX_DEPTH
    /\ pc \in {"run", "unwind"} => depth = ActiveGuards
    /\ pc \in {"start", "done", "err"} => depth = 0 /\ stack = << >>

\* from_binary has returned Ok for a chain that took the depth to MAX_DEPTH
C23_BackAtZero ==
    /\ pc = "done"
    /\ doc.family = "chain"
    /\ doc.n >= MAX_DEPTH
    /\ depth = 0

(***************************************************************************)
(* Properties of the lengths the decoder allocates for.                    *)
(***************************************************************************)
\* the tags whose values take a fixed number of bytes
FixedSizeTags == {"Byte", "Short", "Int", "Long", "Float", "Double"}

\* the Vec of the field e holds no more elements than the input left after
\* the length field has bytes for; a List of elements of variable size is
\* not allocated for its declared length
BoundedReserve(e) ==
    /\ e.cap >= 0
    /\ e.cap > 0 =>
        /\ e.elem \in FixedSizeTags
        /\ e.cap = e.len
        /\ e.cap <= e.avail \div EncodedSize(e.elem)

\* C24: whenever read_list, read_byte_array, read_int_array or read_long_array
\* allocates the Vec of its result, the number of elements allocated for
\* times the encoded size of an element is at most the number of bytes left
\* after the length field, and a List of String, ByteArray, IntArray,
\* LongArray, List or Compound is allocated for 0 elements whatever its
\* declared length.
C24_BoundedAllocation ==
    /\ \A i \in 1..Len(last) : BoundedReserve(last[i])
    /\ \A i \in 1..Len(stack) :
        stack[i].fn = "read_list" =>
            /\ stack[i].cap \in {0, stack[i].len}
            /\ stack[i].tag \notin FixedSizeTags => stack[i].cap = 0

\* a List was allocated for its declared length of 2 or more elements, which
\* take all the bytes left after the length field
C24_ListPreSized ==
    \E i \in 1..Len(last) :
        /\ last[i].field = "List"
        /\ last[i].outcome = "ok"
        /\ last[i].cap >= 2
        /\ last[i].cap * EncodedSize(last[i].elem) = last[i].avail

\* the length check of the field e: its element size as read_any_list and the
\* array readers have it, or 0 for a field read without the check
CheckedSize(e) ==
    CASE e.field \in {"IntArray", "LongArray"} -> EncodedSize(e.elem)
      [] e.field = "List" /\ e.elem \in FixedSizeTags -> EncodedSize(e.elem)
      [] OTHER -> 0

\* C25: for a List of fixed-size elements, an IntArray or a LongArray with a
\* length len >= 0, the check `len * element_size > remaining` fails the read
\* with LengthError exactly when the product, as a number, exceeds the bytes
\* left after the length field (len > remaining / element_size, rounded
\* down): no length up to 2^31 - 1 passes because the product wrapped.
C25_ExactProduct ==
    \A i \in 1..Len(last) :
        LET e == last[i]
            size == CheckedSize(e)
        IN  size > 0 /\ e.len >= 0 =>
                /\ e.outcome = "LengthError" <=> e.len > e.avail \div size
                /\ e.outcome # "LengthError" => e.outcome = "ok" /\ e.len * size <= e.avail

\* a length of 2^29 elements of 8 bytes, whose product is 2^32, was refused
C25_WrapRefused ==
    \E i \in 1..Len(last) :
        /\ CheckedSize(last[i]) = 8
        /\ last[i].len = 536870912
        /\ last[i].outcome = "LengthError"
        /\ pc = "err"
        /\ err = "LengthError"

(***************************************************************************)
(* Termination of from_binary.                                             *)
(***************************************************************************)
\* how far from_binary is from having returned
Rank ==
    CASE pc = "start" -> 3
      [] pc = "run" -> 2
      [] pc = "unwind" -> 1
      [] OTHER -> 0

\* a bound on the steps from_binary has left: it is at most 4 * Len(input) + 3
\* before the first step.  The loop of read_list is the one place that makes
\* a call without a byte read (read_compound for an element).
Measure ==
    4 * Len(slice) + Len(stack) + Rank
    + (IF pc = "run" /\ Top.fn = "read_list" THEN 2 ELSE 0)

\* the step returned an Err, or passed one on
Errs == pc' \in {"unwind", "err"}

\* C26: every iteration of the loop of read_compound reads a byte or more, or
\* returns an Err; every iteration of the loop of read_list does so too, or
\* calls read_compound for an element, whose loop does; and every step of
\* from_binary lowers a measure that starts at 4 * Len(input) + 3 and is
\* never negative, so from_binary returns after at most that many steps,
\* whatever number of elements a list declares.
C26_Terminates ==
    [][/\ Measure' < Measure
       /\ Measure' >= 0
       /\ Measure <= 4 * Len(input) + 3
       /\ pc = "run" /\ Top.fn = "read_compound" => Len(slice') < Len(slice) \/ Errs
       /\ pc = "run" /\ Top.fn = "read_list" /\ Len(Top.acc) < Top.len =>
            \/ Len(slice') < Len(slice)
            \/ Errs
            \/ /\ Top.tag = "Compound"
               /\ Len(stack') = Len(stack) + 1
               /\ stack'[Len(stack')].fn = "read_compound"]_vars

\* a List that declares 2^31 - 1 elements was read until the input ran out,
\* two elements or more
C26_HugeListEnds ==
    /\ pc = "unwind"
    /\ Top.fn = "read_list"
    /\ Top.len = I32_MAX
    /\ Len(Top.acc) >= 2

(***************************************************************************)
(* The cursor of from_binary.                                              *)
(***************************************************************************)
\* a is what is left of b after some bytes are taken from its front
IsSuffix(a, b) == Len(a) <= Len(b) /\ a = Drop(b, Len(b) - Len(a))

\* the bytes from_binary has read when the step is done
Consumed == Take(input, Len(input) - Len(slice'))

\* C27: a step of from_binary takes bytes from the front of the caller's
\* slice and does nothing else to it, so the slice is always what is left of
\* the input.  from_binary reads the root tag, and the root name with its
\* 2-byte length if there is one, before it calls read_compound; when it
\* returns Ok it has read from the root tag to the End of the root compound:
\* the bytes of the document, with what follows them left in the slice.
C27_CursorDiscipline ==
    [][/\ input' = input
       /\ IsSuffix(slice', slice)
       /\ IsSuffix(slice', input)
       /\ pc = "start" /\ pc' = "run" =>
            Len(Consumed) = IF root_name'[1] = "Some" THEN 3 + last'[1].len ELSE 1
       /\ pc' = "done" =>
            /\ Consumed[1] = TagCode("Compound")
            /\ Consumed[Len(Consumed)] = TagCode("End")
            /\ doc.family = "dup" => slice' = doc.tail
            /\ doc.family = "encoded" => slice' = << >>]_vars

\* from_binary has returned Ok with the bytes after the document unread
C27_TailLeft ==
    /\ pc = "done"
    /\ doc.family = "dup"
    /\ Len(doc.entries) >= 2
    /\ doc.tail # << >>
    /\ slice = doc.tail

(***************************************************************************)
(* Properties of the boss bar systems.                                     *)
(***************************************************************************)
\* the boss bars the client is to show: those in a visible layer that have
\* no Position or are in its view
Visible ==
    {bar \in b_bars :
        /\ BossBars[bar].layer \in b_client.layers
        /\ InViewOrGlobal(bar, b_client.pos, b_client.dist)}

\* a tick is over and the application has changed nothing since
Settled == b_pc = "update" /\ b_changed = {} /\ b_client = b_old /\ b_despawned = {}

\* C28: when a tick is over, the boss bars the client shows by the packets
\* it was sent are the boss bars that exist, are in one of its visible
\* layers and, if they have a Position, are in its view.
C28_ShownIsVisible == Settled => b_shown = Visible

\* the number of packets p among the packets
Sent(packets, p) == Cardinality({i \in 1..Len(packets) : packets[i] = p})

\* every Add of the packets is for a bar not shown, every Remove for a bar
\* shown, the client showing `shown` before the first
RECURSIVE Expected(_, _, _)
Expected(shown, packets, i) ==
    IF i > Len(packets) THEN TRUE
    ELSE /\ (packets[i][1] = "Add") = (packets[i][2] \notin shown)
         /\ Expected(Shows(shown, <<packets[i]>>, 1), packets, i + 1)

\* C29: in a tick update_boss_bar_layer_view and update_boss_bar_chunk_view
\* write at most one Add and at most one Remove for a boss bar to the
\* client, no Add for a bar it shows and no Remove for a bar it does not
\* show.
C29_NoDuplicateUpdates ==
    /\ \A bar \in DOMAIN BossBars :
        /\ Sent(b_sent, Add(bar)) <= 1
        /\ Sent(b_sent, Remove(bar)) <= 1
    /\ Expected(b_shown, b_sent, 1)

\* the bytes Node::decode took from the buffer
NodeBytesRead == Take(w_buf, Len(w_buf) - Len(w_rest))

\* C30: Node::encode of the node that Node::decode returned for a buffer
\* writes the bytes that Node::decode took from the buffer.
C30_Canonical == w_pc = "again" => w_again = NodeBytesRead

====
